---- MODULE Spec2Model ----
(***************************************************************************)
(* A model of the asynchronous extraction job orchestrator of              *)
(* langextract-api: the cache-key derivation (extraction_cache.py), the    *)
(* idempotent submission route (api/routes/extract.py), and the            *)
(* extract_document task with its retry envelope, extraction cache, result *)
(* store and status polling (workers/extract_task.py, services/            *)
(* extractor.py, api/routes/tasks.py).                                     *)
(*                                                                         *)
(* Three specifications share the module: SpecKey (build_cache_key as a    *)
(* pure function), SpecSubmit (concurrent submit_extraction calls) and     *)
(* SpecJob (jobs run by workers, polled by clients).                       *)
(***************************************************************************)
EXTENDS Integers, Sequences, FiniteSets, TLC

VARIABLES
    \* SpecKey: two calls of build_cache_key
    kA,          \* the arguments of the first call
    kB,          \* the arguments of the second call
    kOp,         \* how the second call's arguments were derived from the first
    kKeys,       \* <<key of the first call, key of the second call>>
    \* SpecSubmit: submit_extraction calls in flight
    reqPc,       \* position of each call
    reqKey,      \* the call's idempotency_key (0: none)
    reqTask,     \* id of the task the call enqueued (0: none)
    reqResp,     \* task_id in the call's response (0: none yet, -1: the call raised)
    reqSeen,     \* history: the id the first completed call recorded, seen at call start
    reqJob,      \* history: the state of the recorded task when the call read the record
    reqRaced,    \* history: same-key calls that had read but not written when this one read
    reqWrote,    \* history: the call executed setex
    idem,        \* Redis idempotency:{key} -> [id, ttl] (id 0: absent)
    orig,        \* history: per key, [id, ttl] of the first record written in a window
    nextTask,    \* the next fresh Celery task id
    \* SpecJob: extract_document tasks, the stores they use, and their pollers
    jArgs,       \* the arguments each task was enqueued with
    jpc,         \* position of the task's current attempt
    retries,     \* self.request.retries
    attempts,    \* history: attempts started
    llmTries,    \* invocations made by the retry wrapper in this attempt
    jres,        \* the result the attempt holds
    jerr,        \* the exception the attempt raised, by class
    jfault,      \* history: cache operations that failed in this attempt
    celState,    \* the state Celery's result backend holds for the task id
    celPct,      \* its progress meta (percent)
    celErr,      \* its failure info
    celRes,      \* its result
    rstore,      \* Redis task_result:{id}
    cache,       \* the extraction cache, by cache key
    hooks,       \* webhooks sent per task
    metric,      \* what record_task_completed recorded per task
    termPolled,  \* history: the first terminal state a poll reported
    lastPoll,    \* history: what the latest poll since then reported
    \* SpecBatch: one submit_batch_extraction call, its children, finalize_batch
    bDocs,       \* request.documents
    bCallback,   \* request.callback_url is given
    bpc,         \* position of the route handler
    bResp,       \* the response: [batch_task_id, document_task_ids]
    chIds,       \* ids of the extract_document tasks the group dispatched
    chDoc,       \* per task id, the document the task was enqueued with
    chState,     \* per child, the state Celery's result backend holds
    fId,         \* id of the finalize_batch task (0: not enqueued)
    fpc,         \* position of finalize_batch
    fRetries,    \* its self.request.retries
    fCountdown,  \* the countdown it was last scheduled with
    fRuns,       \* history: runs started
    fChecks,     \* history: passes made over the children's readiness
    fProgress,   \* the "completed" count of its last PROGRESS meta (-1: none)
    fAgg,        \* the batch_result it returned
    bStore,      \* Redis task_result:{batch task id}
    bStoreCalls, \* history: calls of _store_result_in_redis
    bHookCalls,  \* history: calls of fire_webhook
    \* SpecConsensus: one prompt given to ConsensusLanguageModel.infer and to
    \* async_infer, over the same providers
    cOutcomes,   \* per provider, what its call does: [raises, scored_seq]
    cThr,        \* similarity_threshold, <<numerator, denominator>>
    sPc,         \* infer: position
    sNext,       \* infer: the provider the loop calls next
    sResults,    \* infer: all_model_results (each provider's outputs for the prompt)
    sOut,        \* infer: the ScoredOutput yielded
    aPc,         \* async_infer: position
    aSlots,      \* async_infer: per provider, "pending", "result" or "None"
    aOrder,      \* async_infer: the providers in the order their calls completed
    aOut,        \* async_infer: the ScoredOutput returned
    \* SpecEquiv: run_extraction and async_run_extraction called with the same
    \* arguments, cache contents and model behaviour
    xArgs,       \* the arguments of the call
    xTask,       \* task_self is given
    xUrl,        \* document_url: "none", or what becomes of it
    xEnabled,    \* ExtractionCache.enabled
    xGetFails,   \* the cache backend fails on get
    xPutFails,   \* the cache backend fails on set
    xScript,     \* what the n-th model invocation does
    syPc,        \* run_extraction: position
    syTrace,     \* run_extraction: what it did, in order
    syTries,     \* run_extraction: model invocations made
    syRes,       \* run_extraction: the payload returned
    syErr,       \* run_extraction: the exception raised
    syCache,     \* the cache run_extraction works on
    asPc,        \* async_run_extraction: position
    asTrace,     \* async_run_extraction: what it did, in order
    asTries,     \* async_run_extraction: model invocations made
    asRes,       \* async_run_extraction: the payload returned
    asErr,       \* async_run_extraction: the exception raised
    asCache,     \* the cache async_run_extraction works on
    \* SpecWebhook: extract_document from the return of the extraction on,
    \* with its call of fire_webhook
    wCallback,   \* callback_url is given
    wUrlOk,      \* validate_url accepts callback_url
    wSecret,     \* settings.WEBHOOK_SECRET ("" when not configured)
    wPayload,    \* the payload handed to fire_webhook
    wExtra,      \* extra_headers (None is the empty dict)
    wTs,         \* int(time.time()) at signing
    wTransport,  \* what becomes of the POST: "2xx", "non2xx", "error"
    wStoreFails, \* Redis fails while the result is stored
    wPc,         \* position
    wStored,     \* the result is in the result store
    wHeaders,    \* fire_webhook: headers
    wBody,       \* fire_webhook: body_bytes
    wSent,       \* the request handed to client.post
    wLog,        \* what fire_webhook logged
    wReturned,   \* the task returned its result
    \* SpecRevoke: DELETE /tasks/{id}
    revSignal,   \* per task id, the revoke signals sent: [terminate, at]
    revResp,     \* the response of the last DELETE
    \* SpecModels: ProviderManager.get_or_create_model
    pmModels,    \* self._models: cache key -> instance
    pmPc,        \* per caller: "idle", "lookup", "create", "insert", "return"
    pmArgs,      \* per caller: the arguments of its call
    pmModel,     \* per caller: the instance it created (local model)
    pmCreated,   \* instances created so far by factory.create_model
    pmGot,       \* the calls that returned: [args, model]
    \* SpecBatchHooks: the webhooks of a batch's children
    chHooks,     \* per child, the calls of fire_webhook its task made
    \* SpecTtl: ExtractionCache.put and get over time
    tEnabled,    \* ExtractionCache.enabled
    tNow,        \* the clock, in seconds
    tRedis,      \* extraction_cache:{key} -> [raw, expires] (expires 0: absent)
    tLastPut,    \* history: per key, the last put that was stored
    tGets,       \* history: the gets made, each with the stored put it followed
    \* SpecProgress: what a poller of GET /tasks/{id} has seen of a task's progress
    seenPct,     \* the percent of the last progress response, 0 before the first
    seenAtt,     \* the attempt that reported it
    seenDrop     \* history: "attempt" / "retry" once a response showed a lower percent

keyVars == <<kA, kB, kOp, kKeys>>
submitVars == <<reqPc, reqKey, reqTask, reqResp, reqSeen, reqJob, reqRaced, reqWrote,
                idem, orig, nextTask>>
jobVars == <<jArgs, jpc, retries, attempts, llmTries, jres, jerr, jfault,
             celState, celPct, celErr, celRes, rstore, cache, hooks, metric,
             termPolled, lastPoll>>
batchVars == <<bDocs, bCallback, bpc, bResp, chIds, chDoc, chState, fId, fpc, fRetries,
               fCountdown, fRuns, fChecks, fProgress, fAgg, bStore, bStoreCalls,
               bHookCalls>>
consVars == <<cOutcomes, cThr, sPc, sNext, sResults, sOut, aPc, aSlots, aOrder, aOut>>
equivInputs == <<xArgs, xTask, xUrl, xEnabled, xGetFails, xPutFails, xScript>>
syncRunVars == <<syPc, syTrace, syTries, syRes, syErr, syCache>>
asyncRunVars == <<asPc, asTrace, asTries, asRes, asErr, asCache>>
equivVars == <<equivInputs, syncRunVars, asyncRunVars>>
hookInputs == <<wCallback, wUrlOk, wSecret, wPayload, wExtra, wTs, wTransport,
                wStoreFails>>
hookVars == <<hookInputs, wPc, wStored, wHeaders, wBody, wSent, wLog, wReturned>>
revokeVars == <<revSignal, revResp>>
pmVars == <<pmModels, pmPc, pmArgs, pmModel, pmCreated, pmGot>>
childVars == <<chHooks>>
ttlVars == <<tEnabled, tNow, tRedis, tLastPut, tGets>>
progVars == <<seenPct, seenAtt, seenDrop>>
vars == <<keyVars, submitVars, jobVars, batchVars, consVars, equivVars, hookVars,
          revokeVars, pmVars,
      childVars,
      ttlVars,
      progVars>>
\* What the actions of one specification leave alone.
notKeyVars == <<submitVars, jobVars, batchVars, consVars, equivVars, hookVars,
      revokeVars,
      pmVars,
      childVars,
      ttlVars,
      progVars>>
notSubmitVars == <<keyVars, jobVars, batchVars, consVars, equivVars, hookVars,
      revokeVars,
      pmVars,
      childVars,
      ttlVars,
      progVars>>
notJobVars == <<keyVars, submitVars, batchVars, consVars, equivVars, hookVars,
      revokeVars,
      pmVars,
      childVars,
      ttlVars,
      progVars>>
notBatchVars == <<keyVars, submitVars, jobVars, consVars, equivVars, hookVars,
      revokeVars,
      pmVars,
      childVars,
      ttlVars,
      progVars>>
notConsVars == <<keyVars, submitVars, jobVars, batchVars, equivVars, hookVars,
      revokeVars,
      pmVars,
      childVars,
      ttlVars,
      progVars>>
notEquivVars == <<keyVars, submitVars, jobVars, batchVars, consVars, hookVars,
      revokeVars,
      pmVars,
      childVars,
      ttlVars,
      progVars>>
notHookVars == <<keyVars, submitVars, jobVars, batchVars, consVars, equivVars,
      revokeVars,
      pmVars,
      childVars,
      ttlVars,
      progVars>>
notPmVars == <<keyVars, submitVars, jobVars, batchVars, consVars, equivVars, hookVars,
               revokeVars,
      childVars,
      ttlVars,
      progVars>>
notRevokeVars == <<keyVars, submitVars, jobVars, batchVars, consVars, equivVars,
                   hookVars,
      pmVars,
      childVars,
      ttlVars,
      progVars>>
notBatchChildVars == <<keyVars, submitVars, jobVars, consVars, equivVars, hookVars,
      revokeVars, pmVars,
      ttlVars,
      progVars>>
notJobRevokeVars == <<keyVars, submitVars, batchVars, consVars, equivVars,
      hookVars, pmVars, childVars,
      ttlVars,
      progVars>>
notChildVars == <<keyVars, submitVars, jobVars, batchVars, consVars,
      equivVars, hookVars, revokeVars, pmVars,
      ttlVars,
      progVars>>
notTtlVars == <<keyVars, submitVars, jobVars, batchVars, consVars,
      equivVars, hookVars, revokeVars, pmVars, childVars,
      progVars>>
notProgVars == <<keyVars, submitVars, jobVars, batchVars, consVars,
      equivVars, hookVars, revokeVars, pmVars, childVars, ttlVars>>

(***************************************************************************)
(* Strings.  A string is a sequence of characters; a character is a        *)
(* sequence of integers: <<c>> is the character with code point c, and a   *)
(* longer sequence <<HashTag, ...>> is the hex digest of a pre-image       *)
(* (SHA-256 idealised as injective: "up to hash collision").               *)
(***************************************************************************)
Str(codes) == [i \in 1..Len(codes) |-> <<codes[i]>>]

RECURSIVE Join(_, _)
\* sep.join(parts)
Join(parts, sep) ==
    IF Len(parts) = 0 THEN <<>>
    ELSE IF Len(parts) = 1 THEN parts[1]
    ELSE parts[1] \o sep \o Join(Tail(parts), sep)

RECURSIVE Flat(_)
\* The characters of a string laid end to end, each after its length.
Flat(s) ==
    IF Len(s) = 0 THEN <<>> ELSE <<Len(s[1])>> \o s[1] \o Flat(Tail(s))

\* hashlib.sha256(s.encode()).hexdigest(): one digest "character" that
\* stands for the 64 hex digits, determined by the whole pre-image.
Sha256Hex(s) == << <<-1>> \o Flat(s) >>

RECURSIVE ItoA(_)
\* str(n) for an int n >= 0: its decimal digits.
ItoA(n) ==
    IF n < 10 THEN Str(<<48 + n>>) ELSE ItoA(n \div 10) \o Str(<<48 + (n % 10)>>)

\* Python's None for a number and for a list; a present value v is Some(v).
NoneNum == [some |-> FALSE, v |-> 0]
NoneList == [some |-> FALSE, v |-> <<>>]
Some(x) == [some |-> TRUE, v |-> x]

\* str(x) for a float given in tenths (7 is 0.7, 10 is 1.0), or None.
PyStrFloat(x) ==
    IF ~x.some THEN Str(<<78, 111, 110, 101>>)
    ELSE ItoA(x.v \div 10) \o Str(<<46>>) \o ItoA(x.v % 10)

RECURSIVE SeqLess(_, _)
\* Lexicographic order on integer sequences (code-point order of characters).
SeqLess(a, b) ==
    IF Len(b) = 0 THEN FALSE
    ELSE IF Len(a) = 0 THEN TRUE
    ELSE IF a[1] # b[1] THEN a[1] < b[1]
    ELSE SeqLess(Tail(a), Tail(b))

RECURSIVE StrLess(_, _)
\* Python's < on str.
StrLess(a, b) ==
    IF Len(b) = 0 THEN FALSE
    ELSE IF Len(a) = 0 THEN TRUE
    ELSE IF a[1] # b[1] THEN SeqLess(a[1], b[1])
    ELSE StrLess(Tail(a), Tail(b))

RECURSIVE InsertByKey(_, _)
\* The item x = <<key, value>> inserted into the key-sorted list xs, after the
\* items whose key is not greater.
InsertByKey(x, xs) ==
    IF Len(xs) = 0 THEN <<x>>
    ELSE IF StrLess(x[1], xs[1][1]) THEN <<x>> \o xs
    ELSE <<xs[1]>> \o InsertByKey(x, Tail(xs))

RECURSIVE SortByKey(_)
\* sorted(xs, key=first), stable.
SortByKey(xs) ==
    IF Len(xs) = 0 THEN <<>>
    ELSE InsertByKey(xs[Len(xs)], SortByKey(SubSeq(xs, 1, Len(xs) - 1)))

\* sorted(xs) for a list of str.
Sorted(xs) ==
    LET s == SortByKey([i \in 1..Len(xs) |-> <<xs[i], xs[i]>>])
    IN  [i \in 1..Len(s) |-> s[i][2]]

\* json.dumps of one character inside a string literal (ensure_ascii).
JsonEscapeChar(c) ==
    IF c = <<0>> THEN Str(<<92, 117, 48, 48, 48, 48>>)
    ELSE IF c = <<34>> THEN Str(<<92, 34>>)
    ELSE IF c = <<92>> THEN Str(<<92, 92>>)
    ELSE <<c>>

RECURSIVE JsonEscape(_)
JsonEscape(s) ==
    IF Len(s) = 0 THEN <<>> ELSE JsonEscapeChar(s[1]) \o JsonEscape(Tail(s))

\* json.dumps(s) for a str s.
JsonStr(s) == Str(<<34>>) \o JsonEscape(s) \o Str(<<34>>)

\* A dict is the list of its <<key, value>> items in insertion order.
\* json.dumps(d, sort_keys=True, separators=(",", ":")) for a dict of strings.
JsonDict(d) ==
    LET items == SortByKey(d)
        parts == [i \in 1..Len(items) |->
                    JsonStr(items[i][1]) \o Str(<<58>>) \o JsonStr(items[i][2])]
    IN  Str(<<123>>) \o Join(parts, Str(<<44>>)) \o Str(<<125>>)

\* _stable_json(examples): a list of dicts.
StableJsonDicts(xs) ==
    Str(<<91>>) \o Join([i \in 1..Len(xs) |-> JsonDict(xs[i])], Str(<<44>>))
        \o Str(<<93>>)

\* _stable_json(sorted(consensus_providers)): a list of strings.
StableJsonStrs(xs) ==
    Str(<<91>>) \o Join([i \in 1..Len(xs) |-> JsonStr(xs[i])], Str(<<44>>))
        \o Str(<<93>>)

(***************************************************************************)
(* build_cache_key                                                         *)
(***************************************************************************)
\* _TEXT_HASH_THRESHOLD (50,000 characters), scaled to the model's texts.
TextHashThreshold == 2

\* The parts list without the temperature: a key that forgets one field.
KeyPartsNoTemperature(f) ==
    LET text_component ==
            IF Len(f.text) > TextHashThreshold THEN Sha256Hex(f.text) ELSE f.text
    IN  <<text_component, f.prompt, StableJsonDicts(f.examples), f.model,
          ItoA(f.passes)>>

\* The parts list with the provider list appended in the caller's order.
KeyPartsUnsorted(f) ==
    LET text_component ==
            IF Len(f.text) > TextHashThreshold THEN Sha256Hex(f.text) ELSE f.text
        parts == <<text_component, f.prompt, StableJsonDicts(f.examples), f.model,
                   PyStrFloat(f.temperature), ItoA(f.passes)>>
    IN  IF f.providers.some /\ Len(f.providers.v) > 0
        THEN parts \o <<StableJsonStrs(f.providers.v), PyStrFloat(f.threshold)>>
        ELSE parts

\* The parts list of build_cache_key for the arguments f.
KeyParts(f) ==
    LET text_component ==
            IF Len(f.text) > TextHashThreshold THEN Sha256Hex(f.text) ELSE f.text
        parts == <<text_component, f.prompt, StableJsonDicts(f.examples), f.model,
                   PyStrFloat(f.temperature), ItoA(f.passes)>>
    IN  IF f.providers.some /\ Len(f.providers.v) > 0
        THEN parts \o <<StableJsonStrs(Sorted(f.providers.v)),
                        PyStrFloat(f.threshold)>>
        ELSE parts

\* build_cache_key(text, prompt_description, examples, model_id, temperature,
\* passes, consensus_providers, consensus_threshold)
BuildCacheKey(f) == Sha256Hex(Join(KeyParts(f), Str(<<0>>)))

(***************************************************************************)
(* submit_extraction (POST /extract) and the idempotency index             *)
(***************************************************************************)
\* Concurrent submit_extraction calls the model follows.
NumReqs == 3
\* Distinct idempotency keys callers use.
NumKeys == 2
\* settings.RESULT_EXPIRES, the TTL of an idempotency record, in clock ticks.
IdemTtl == 2

Reqs == 1..NumReqs
IdemKeys == 1..NumKeys
NoRecord == [id |-> 0, ttl |-> 0]

SubmitInit ==
    /\ reqPc = [r \in Reqs |-> "idle"]
    /\ reqKey = [r \in Reqs |-> 0]
    /\ reqTask = [r \in Reqs |-> 0]
    /\ reqResp = [r \in Reqs |-> 0]
    /\ reqSeen = [r \in Reqs |-> 0]
    /\ reqJob = [r \in Reqs |-> "none"]
    /\ reqRaced = [r \in Reqs |-> {}]
    /\ reqWrote = [r \in Reqs |-> FALSE]
    /\ idem = [k \in IdemKeys |-> NoRecord]
    /\ orig = [k \in IdemKeys |-> NoRecord]
    /\ nextTask = 1

\* The calls with key k that have read no record and not yet written theirs.
InFlight(k) == {q \in Reqs : reqKey[q] = k /\ reqPc[q] \in {"enqueue", "write"}}

\* A rejection that comes after the task was enqueued.
SubmitRejectAfterEnqueue(r) ==
    /\ reqPc[r] = "idle"
    /\ reqPc' = [reqPc EXCEPT ![r] = "done"]
    /\ reqResp' = [reqResp EXCEPT ![r] = -2]
    /\ reqTask' = [reqTask EXCEPT ![r] = nextTask]
    /\ nextTask' = nextTask + 1
    /\ UNCHANGED <<reqKey, reqSeen, reqJob, reqRaced, reqWrote, idem, orig, notSubmitVars>>

\* Lines 28-62 and 84: document_url or callback_url fails validate_url; the
\* call ends with HTTP 400 (response -2) before anything else is done.
SubmitReject(r) ==
    /\ reqPc[r] = "idle"
    /\ reqPc' = [reqPc EXCEPT ![r] = "done"]
    /\ reqResp' = [reqResp EXCEPT ![r] = -2]
    /\ UNCHANGED <<reqKey, reqTask, reqSeen, reqJob, reqRaced, reqWrote, idem, orig,
                   nextTask, notSubmitVars>>

\* What the task named by the record under key k is doing when the call reads
\* the record ("none": no key, no answer of Redis, no record, or a task the
\* specification does not run).
RecordedTaskState(k, fails) ==
    IF k # 0 /\ ~fails /\ idem[k].id \in DOMAIN jpc THEN jpc[idem[k].id] ELSE "none"

\* A lookup that takes the record of a task that failed for no record.
SubmitReadSkipsFailed(r, k, fails) ==
    /\ reqPc[r] = "idle"
    /\ reqKey' = [reqKey EXCEPT ![r] = k]
    /\ reqSeen' = [reqSeen EXCEPT ![r] = IF k = 0 THEN 0 ELSE orig[k].id]
    /\ reqJob' = [reqJob EXCEPT ![r] = RecordedTaskState(k, fails)]
    /\ IF k = 0
       THEN /\ reqPc' = [reqPc EXCEPT ![r] = "enqueue"]
            /\ UNCHANGED <<reqResp, reqRaced>>
       ELSE IF fails
       THEN /\ reqPc' = [reqPc EXCEPT ![r] = "done"]
            /\ reqResp' = [reqResp EXCEPT ![r] = -1]
            /\ UNCHANGED reqRaced
       ELSE IF idem[k].id # 0 /\ RecordedTaskState(k, fails) # "failure"
       THEN /\ reqPc' = [reqPc EXCEPT ![r] = "done"]
            /\ reqResp' = [reqResp EXCEPT ![r] = idem[k].id]
            /\ UNCHANGED reqRaced
       ELSE /\ reqPc' = [reqPc EXCEPT ![r] = "enqueue"]
            /\ reqRaced' = [reqRaced EXCEPT ![r] = InFlight(k)]
            /\ UNCHANGED reqResp
    /\ UNCHANGED <<reqTask, reqWrote, idem, orig, nextTask, notSubmitVars>>

\* Lines 84-104: the call starts; with an idempotency_key it reads the record,
\* and returns the recorded task id when there is one.  redis_client.get may
\* raise: only a finally clause surrounds it, so the exception leaves the call.
SubmitRead(r, k, fails) ==
    /\ reqPc[r] = "idle"
    /\ reqKey' = [reqKey EXCEPT ![r] = k]
    /\ reqSeen' = [reqSeen EXCEPT ![r] = IF k = 0 THEN 0 ELSE orig[k].id]
    /\ reqJob' = [reqJob EXCEPT ![r] = RecordedTaskState(k, fails)]
    /\ IF k = 0
       THEN /\ reqPc' = [reqPc EXCEPT ![r] = "enqueue"]
            /\ UNCHANGED <<reqResp, reqRaced>>
       ELSE IF fails
       THEN /\ reqPc' = [reqPc EXCEPT ![r] = "done"]
            /\ reqResp' = [reqResp EXCEPT ![r] = -1]
            /\ UNCHANGED reqRaced
       ELSE IF idem[k].id # 0
       THEN /\ reqPc' = [reqPc EXCEPT ![r] = "done"]
            /\ reqResp' = [reqResp EXCEPT ![r] = idem[k].id]
            /\ UNCHANGED reqRaced
       ELSE /\ reqPc' = [reqPc EXCEPT ![r] = "enqueue"]
            /\ reqRaced' = [reqRaced EXCEPT ![r] = InFlight(k)]
            /\ UNCHANGED reqResp
    /\ UNCHANGED <<reqTask, reqWrote, idem, orig, nextTask, notSubmitVars>>

\* Lines 107-117 (and 133-140 without a key): extract_document.delay(...)
\* enqueues a task under a fresh id.
SubmitEnqueue(r) ==
    /\ reqPc[r] = "enqueue"
    /\ reqTask' = [reqTask EXCEPT ![r] = nextTask]
    /\ nextTask' = nextTask + 1
    /\ IF reqKey[r] = 0
       THEN /\ reqPc' = [reqPc EXCEPT ![r] = "done"]
            /\ reqResp' = [reqResp EXCEPT ![r] = nextTask]
       ELSE /\ reqPc' = [reqPc EXCEPT ![r] = "write"]
            /\ UNCHANGED reqResp
    /\ UNCHANGED <<reqKey, reqSeen, reqJob, reqRaced, reqWrote, idem, orig, notSubmitVars>>

\* A write that keeps an existing record and answers with its task id (SET NX).
SubmitWriteIfAbsent(r, fails) ==
    /\ reqPc[r] = "write"
    /\ reqPc' = [reqPc EXCEPT ![r] = "done"]
    /\ IF fails
       THEN /\ reqResp' = [reqResp EXCEPT ![r] = -1]
            /\ UNCHANGED <<reqWrote, idem, orig>>
       ELSE IF idem[reqKey[r]].id # 0
       THEN /\ reqResp' = [reqResp EXCEPT ![r] = idem[reqKey[r]].id]
            /\ UNCHANGED <<reqWrote, idem, orig>>
       ELSE /\ reqWrote' = [reqWrote EXCEPT ![r] = TRUE]
            /\ idem' = [idem EXCEPT ![reqKey[r]] = [id |-> reqTask[r], ttl |-> IdemTtl]]
            /\ orig' = [orig EXCEPT ![reqKey[r]] = [id |-> reqTask[r], ttl |-> IdemTtl]]
            /\ reqResp' = [reqResp EXCEPT ![r] = reqTask[r]]
    /\ UNCHANGED <<reqKey, reqTask, reqSeen, reqJob, reqRaced, nextTask, notSubmitVars>>

\* Lines 119-140: setex(idem_key, RESULT_EXPIRES, task.id) replaces whatever
\* the key holds and restarts its TTL; then the call returns task.id.  setex
\* may raise: the exception leaves the call after the task was enqueued.
SubmitWrite(r, fails) ==
    /\ reqPc[r] = "write"
    /\ reqPc' = [reqPc EXCEPT ![r] = "done"]
    /\ IF fails
       THEN /\ reqResp' = [reqResp EXCEPT ![r] = -1]
            /\ UNCHANGED <<reqWrote, idem, orig>>
       ELSE /\ reqWrote' = [reqWrote EXCEPT ![r] = TRUE]
            /\ idem' = [idem EXCEPT ![reqKey[r]] = [id |-> reqTask[r], ttl |-> IdemTtl]]
            /\ orig' = [orig EXCEPT ![reqKey[r]] =
                          IF @.id = 0 THEN [id |-> reqTask[r], ttl |-> IdemTtl] ELSE @]
            /\ reqResp' = [reqResp EXCEPT ![r] = reqTask[r]]
    /\ UNCHANGED <<reqKey, reqTask, reqSeen, reqJob, reqRaced, nextTask, notSubmitVars>>

\* One record a clock tick older; Redis drops it when its TTL is used up.
Aged(rec) ==
    IF rec.id = 0 THEN rec
    ELSE IF rec.ttl = 1 THEN NoRecord
    ELSE [rec EXCEPT !.ttl = @ - 1]

\* A clock tick while some record is alive.
SubmitTick ==
    /\ \E k \in IdemKeys : idem[k].id # 0
    /\ idem' = [k \in IdemKeys |-> Aged(idem[k])]
    /\ orig' = [k \in IdemKeys |-> Aged(orig[k])]
    /\ UNCHANGED <<reqPc, reqKey, reqTask, reqResp, reqSeen, reqJob, reqRaced, reqWrote,
                   nextTask, notSubmitVars>>

SubmitNext ==
    \/ \E r \in Reqs : SubmitReject(r)
    \/ \E r \in Reqs, k \in 0..NumKeys, fails \in BOOLEAN : SubmitRead(r, k, fails)
    \/ \E r \in Reqs : SubmitEnqueue(r)
    \/ \E r \in Reqs, fails \in BOOLEAN : SubmitWrite(r, fails)
    \/ SubmitTick

(***************************************************************************)
(* SpecKey: build_cache_key is called on arguments drawn from small sets,  *)
(* then again on the same arguments, on a reordering of the provider list, *)
(* or with one argument changed.                                           *)
(***************************************************************************)
PlainTexts == {Str(<<97>>), Str(<<97, 98>>), Str(<<97, 98, 99>>),
               Str(<<97, 98, 99, 100>>)}
\* A text may itself be the hex digest of a longer text.
DigestTexts == {Sha256Hex(t) : t \in {p \in PlainTexts : Len(p) > TextHashThreshold}}
Texts == PlainTexts \cup DigestTexts
Prompts == {Str(<<112>>), Str(<<113>>)}
ExampleA == << <<Str(<<97>>), Str(<<120>>)>>, <<Str(<<98>>), Str(<<121>>)>> >>
\* ExampleA with its items inserted in the other order: the same dict.
ExampleAr == << <<Str(<<98>>), Str(<<121>>)>>, <<Str(<<97>>), Str(<<120>>)>> >>
ExampleB == << <<Str(<<97>>), Str(<<121>>)>> >>
ExampleLists == {<<ExampleA>>, <<ExampleAr>>, <<ExampleB>>}
ModelIds == {Str(<<97>>), Str(<<98>>)}
Temperatures == {NoneNum, Some(0), Some(7)}
PassCounts == {1, 3}
ProviderLists == {NoneList, Some(<<>>),
                  Some(<<Str(<<97>>), Str(<<98>>)>>),
                  Some(<<Str(<<98>>), Str(<<97>>)>>),
                  Some(<<Str(<<97>>), Str(<<99>>)>>)}
Thresholds == {NoneNum, Some(6), Some(7)}

KeyArgs == [text : Texts, prompt : Prompts, examples : ExampleLists,
            model : ModelIds, temperature : Temperatures, passes : PassCounts,
            providers : ProviderLists, threshold : Thresholds]

\* Python == on dicts given as item lists: the same items in any order.
DictEq(d, e) == {d[i] : i \in 1..Len(d)} = {e[i] : i \in 1..Len(e)}
DictListEq(xs, ys) ==
    /\ Len(xs) = Len(ys)
    /\ \A i \in 1..Len(xs) : DictEq(xs[i], ys[i])
\* The set of providers a consensus_providers argument names.
ProviderSet(p) == {p.v[i] : i \in 1..Len(p.v)}

KeyIdle ==
    /\ kA = [text |-> <<>>, prompt |-> <<>>, examples |-> <<>>, model |-> <<>>,
             temperature |-> NoneNum, passes |-> 0, providers |-> NoneList,
             threshold |-> NoneNum]
    /\ kB = kA
    /\ kOp = "none"
    /\ kKeys = <<<<>>, <<>>>>

KeyInit ==
    /\ kA \in KeyArgs
    /\ kB = kA
    /\ kOp = "none"
    /\ kKeys = <<<<>>, <<>>>>

\* The second call, on arguments b, after the first call on kA.
KeyCall(op, b) ==
    /\ kOp = "none"
    /\ kB' = b
    /\ kOp' = op
    /\ kKeys' = <<BuildCacheKey(kA), BuildCacheKey(b)>>
    /\ UNCHANGED <<kA, notKeyVars>>

CallAgain == KeyCall("again", kA)

CallReordered ==
    /\ kA.providers.some
    /\ \E p \in Permutations(1..Len(kA.providers.v)) :
          KeyCall("reorder",
                  [kA EXCEPT !.providers =
                      Some([i \in 1..Len(kA.providers.v) |-> kA.providers.v[p[i]]])])

ChangeText ==
    \E v \in Texts \ {kA.text} : KeyCall("text", [kA EXCEPT !.text = v])

ChangePrompt ==
    \E v \in Prompts \ {kA.prompt} : KeyCall("prompt", [kA EXCEPT !.prompt = v])

ChangeExamples ==
    \E v \in ExampleLists :
        /\ ~DictListEq(v, kA.examples)
        /\ KeyCall("examples", [kA EXCEPT !.examples = v])

ChangeModel ==
    \E v \in ModelIds \ {kA.model} : KeyCall("model", [kA EXCEPT !.model = v])

ChangeTemperature ==
    \E v \in Temperatures \ {kA.temperature} :
        KeyCall("temperature", [kA EXCEPT !.temperature = v])

ChangePasses ==
    \E v \in PassCounts \ {kA.passes} : KeyCall("passes", [kA EXCEPT !.passes = v])

ChangeProviders ==
    \E v \in ProviderLists :
        /\ ProviderSet(v) # ProviderSet(kA.providers)
        /\ KeyCall("providers", [kA EXCEPT !.providers = v])

ChangeThreshold ==
    \E v \in Thresholds \ {kA.threshold} :
        KeyCall("threshold", [kA EXCEPT !.threshold = v])

KeyNext ==
    \/ CallAgain
    \/ CallReordered
    \/ ChangeText
    \/ ChangePrompt
    \/ ChangeExamples
    \/ ChangeModel
    \/ ChangeTemperature
    \/ ChangePasses
    \/ ChangeProviders
    \/ ChangeThreshold

\* Line 117: raw, the pre-image that is hashed.
RawPreimage(f) == Join(KeyParts(f), Str(<<0>>))

\* Texts and prompts that may contain the separator, "\x00"; a text over the
\* threshold, and the text that is its digest.
SepTexts == {Str(<<97>>), Str(<<97, 0>>), Str(<<97, 98, 99>>),
             Sha256Hex(Str(<<97, 98, 99>>))}
SepPrompts == {Str(<<112>>), Str(<<0, 112>>)}

PreimageArgs ==
    [text : SepTexts, prompt : SepPrompts, examples : {<<ExampleB>>},
     model : ModelIds, temperature : {NoneNum}, passes : {1},
     providers : {NoneList}, threshold : {NoneNum}]

PreimageInit ==
    /\ kA \in PreimageArgs
    /\ kB = kA
    /\ kOp = "none"
    /\ kKeys = <<<<>>, <<>>>>

\* A second call on any other arguments.
CallOther == \E b \in PreimageArgs \ {kA} : KeyCall("other", b)

PreimageNext ==
    \/ CallAgain
    \/ CallOther

(***************************************************************************)
(* extract_document: the Celery task, run_extraction inside it, the        *)
(* extraction cache, the result store, and GET /tasks/{id}                 *)
(***************************************************************************)
\* Tasks the model follows.
NumJobs == 2
\* max_retries of the extract_document task.
MaxRetries == 3
\* Immediate re-invocations when the model's output is malformed.
MAX_LLM_RETRIES == 2

\* Worker processes (each runs one task at a time: worker_prefetch_multiplier=1).
NumWorkers == 1

Jobs == 1..NumJobs

\* The build_cache_key arguments run_extraction derives from a task's arguments.
JobKeyArgs(text) ==
    [text |-> text, prompt |-> Str(<<112>>), examples |-> <<ExampleB>>,
     model |-> Str(<<97>>), temperature |-> NoneNum, passes |-> 1,
     providers |-> NoneList, threshold |-> NoneNum]

\* The arguments a task may be enqueued with: the key fields, and
\* extraction_config["additional_context"] (absent, or a string).
BaseArgs == [f |-> JobKeyArgs(Str(<<97>>)), additional_context |-> NoneList]

JobArgChoices ==
    {BaseArgs,
     [f |-> JobKeyArgs(Str(<<97>>)), additional_context |-> Some(Str(<<120>>))],
     [f |-> JobKeyArgs(Str(<<98>>)), additional_context |-> NoneList]}

\* extract_kwargs (lines 643-671): what lx.async_extract is called with.
ExtractKwargs(a) ==
    [text_or_documents |-> a.f.text, prompt_description |-> a.f.prompt,
     examples |-> a.f.examples, model |-> a.f.model,
     extraction_passes |-> a.f.passes, temperature |-> a.f.temperature,
     additional_context |-> a.additional_context]

NoKwargs == ExtractKwargs([f |-> JobKeyArgs(<<>>), additional_context |-> NoneList])

\* A result dict: entities stands for the extraction the model makes of the
\* kwargs it was invoked with; cache_hit is FALSE when the key is absent.
NoPayload ==
    [status |-> "none", entities |-> NoKwargs, provider |-> <<>>,
     processing_time_ms |-> 0, cache_hit |-> FALSE]

\* The result dict of lines 705-716.
ResultOf(a, elapsed_ms) ==
    [status |-> "completed", entities |-> ExtractKwargs(a), provider |-> a.f.model,
     processing_time_ms |-> elapsed_ms, cache_hit |-> FALSE]

\* A cache hit that forgets to flag the payload.
PatchCachedUnflagged(cached, elapsed_ms) ==
    [cached EXCEPT !.processing_time_ms = elapsed_ms]

\* Lines 579-581: the cached payload, patched.
PatchCached(cached, elapsed_ms) ==
    [cached EXCEPT !.processing_time_ms = elapsed_ms, !.cache_hit = TRUE]

\* Lines 562-575: the cache key of a task.
KeyOfArgs == [a \in JobArgChoices |-> BuildCacheKey(a.f)]
CacheKeyOf(j) == KeyOfArgs[jArgs[j]]
CacheKeys == {KeyOfArgs[a] : a \in JobArgChoices}

\* The elapsed time the clock measures for a full run, and for a cache hit.
RunElapsedMs == 2
HitElapsedMs == 1

JobInit ==
    /\ jArgs \in [Jobs -> JobArgChoices]
    /\ jArgs[1] = BaseArgs
    /\ jpc = [j \in Jobs |-> "queued"]
    /\ retries = [j \in Jobs |-> 0]
    /\ attempts = [j \in Jobs |-> 0]
    /\ llmTries = [j \in Jobs |-> 0]
    /\ jres = [j \in Jobs |-> NoPayload]
    /\ jerr = [j \in Jobs |-> "none"]
    /\ jfault = [j \in Jobs |-> {}]
    /\ celState = [j \in Jobs |-> "PENDING"]
    /\ celPct = [j \in Jobs |-> 0]
    /\ celErr = [j \in Jobs |-> "none"]
    /\ celRes = [j \in Jobs |-> NoPayload]
    /\ rstore = [j \in Jobs |-> NoPayload]
    /\ cache = [k \in CacheKeys |-> NoPayload]
    /\ hooks = [j \in Jobs |-> 0]
    /\ metric = [j \in Jobs |-> <<>>]
    /\ termPolled = [j \in Jobs |-> "none"]
    /\ lastPoll = [j \in Jobs |-> "none"]

\* The state of the job variables in the specifications that run no task.
JobIdle ==
    /\ jArgs = <<>> /\ jpc = <<>> /\ retries = <<>> /\ attempts = <<>>
    /\ llmTries = <<>> /\ jres = <<>> /\ jerr = <<>>
    /\ jfault = <<>> /\ celState = <<>> /\ celPct = <<>> /\ celErr = <<>>
    /\ celRes = <<>> /\ rstore = <<>> /\ cache = <<>> /\ hooks = <<>>
    /\ metric = <<>> /\ termPolled = <<>> /\ lastPoll = <<>>

\* update_state(state=PROGRESS, meta={..., "percent": pct})
UpdateState(j, pct) ==
    /\ celState' = [celState EXCEPT ![j] = "PROGRESS"]
    /\ celPct' = [celPct EXCEPT ![j] = pct]

\* The attempt raises exception class e, caught at extract_task.py line 128.
Raise(j, e) ==
    /\ jerr' = [jerr EXCEPT ![j] = e]
    /\ jpc' = [jpc EXCEPT ![j] = "except"]

\* The tasks a worker is running.
Running == {j \in Jobs : jpc[j] \notin {"queued", "success", "failure", "revoked"}}

\* A free worker takes the task from the queue; task_track_started stores STARTED
\* (the stored meta replaces the progress meta of an earlier attempt).
TaskStart(j) ==
    /\ jpc[j] = "queued"
    /\ Cardinality(Running) < NumWorkers
    /\ jpc' = [jpc EXCEPT ![j] = "preparing"]
    /\ attempts' = [attempts EXCEPT ![j] = @ + 1]
    /\ celState' = [celState EXCEPT ![j] = "STARTED"]
    /\ celPct' = [celPct EXCEPT ![j] = 0]
    /\ UNCHANGED <<jArgs, retries, llmTries, jres, jerr, jfault, celErr, celRes,
                   rstore, cache, hooks, metric, termPolled, lastPoll, notJobVars>>

\* Lines 524-532: progress "preparing", 5%.
ReportPreparing(j) ==
    /\ jpc[j] = "preparing"
    /\ jpc' = [jpc EXCEPT ![j] = "input"]
    /\ UpdateState(j, 5)
    /\ UNCHANGED <<jArgs, retries, attempts, llmTries, jres, jerr, jfault,
                   celErr, celRes, rstore, cache, hooks, metric, termPolled,
                   lastPoll, notJobVars>>

\* Lines 534-555: validate and download document_url, or take raw_text; the
\* download may raise.
ResolveInput(j, fails) ==
    /\ jpc[j] = "input"
    /\ IF fails THEN Raise(j, "OtherError")
       ELSE jpc' = [jpc EXCEPT ![j] = "cache_get"] /\ UNCHANGED jerr
    /\ UNCHANGED <<jArgs, retries, attempts, llmTries, jres, jfault,
                   celState, celPct, celErr, celRes, rstore, cache, hooks, metric,
                   termPolled, lastPoll, notJobVars>>

\* A backend get that lets the backend's exception out.
BackendGetRaisesUncaught(fails) == fails

\* _RedisBackend.get lines 167-178, _DiskBackend.get lines 248-259: an
\* exception of the backend is caught and None returned; nothing is raised.
BackendGetRaises(fails) == FALSE

\* _RedisBackend.set lines 199-206, _DiskBackend.set lines 275-286: an
\* exception of the backend is caught; nothing is raised.
BackendSetRaises(fails) == FALSE

\* ExtractionCache.get: the stored payload, or None on a miss or a backend error.
CacheGet(key, fails) == IF fails THEN NoPayload ELSE cache[key]

\* Lines 557-588: the cache check.  On a hit the patched payload is returned;
\* on a miss, or when the backend fails, the extraction goes on.
CacheLookup(j, fails, elapsed_ms) ==
    /\ jpc[j] = "cache_get"
    /\ IF BackendGetRaises(fails)
       THEN Raise(j, "CacheError") /\ UNCHANGED <<jres, jfault>>
       ELSE LET cached == CacheGet(CacheKeyOf(j), fails)
            IN  IF cached # NoPayload
                THEN /\ jres' = [jres EXCEPT ![j] = PatchCached(cached, elapsed_ms)]
                     /\ jpc' = [jpc EXCEPT ![j] = "returned"]
                     /\ UNCHANGED <<jerr, jfault>>
                ELSE /\ jpc' = [jpc EXCEPT ![j] = "extracting"]
                     /\ jfault' = [jfault EXCEPT ![j] =
                                      IF fails THEN @ \cup {"get"} ELSE @]
                     /\ UNCHANGED <<jres, jerr>>
    /\ UNCHANGED <<jArgs, retries, attempts, llmTries, celState, celPct,
                   celErr, celRes, rstore, cache, hooks, metric, termPolled,
                   lastPoll, notJobVars>>

\* Lines 591-599: progress "extracting", 10%.
ReportExtracting(j) ==
    /\ jpc[j] = "extracting"
    /\ jpc' = [jpc EXCEPT ![j] = "invoke"]
    /\ UpdateState(j, 10)
    /\ UNCHANGED <<jArgs, retries, attempts, llmTries, jres, jerr, jfault,
                   celErr, celRes, rstore, cache, hooks, metric, termPolled,
                   lastPoll, notJobVars>>

\* A retry wrapper that retries on every exception class.
RetriesLxOnAnyError(outcome, made) ==
    outcome # "ok" /\ made < MAX_LLM_RETRIES + 1

\* The tenacity decorator, lines 453-458: after an invocation that raised
\* `outcome`, with `made` invocations made so far, invoke again?
RetriesLx(outcome, made) ==
    outcome = "ValueError" /\ made < MAX_LLM_RETRIES + 1

\* An invocation whose exception leaves a partial result in the cache and in
\* the result store.
LxExtractStoresOnError(j, outcome) ==
    /\ jpc[j] = "invoke"
    /\ llmTries' = [llmTries EXCEPT ![j] = @ + 1]
    /\ IF outcome = "ok"
       THEN /\ jpc' = [jpc EXCEPT ![j] = "post"]
            /\ jerr' = [jerr EXCEPT ![j] = "none"]
            /\ UNCHANGED <<cache, rstore>>
       ELSE /\ Raise(j, outcome)
            /\ cache' = [cache EXCEPT ![CacheKeyOf(j)] = ResultOf(jArgs[j], RunElapsedMs)]
            /\ rstore' = [rstore EXCEPT ![j] = ResultOf(jArgs[j], RunElapsedMs)]
    /\ UNCHANGED <<jArgs, retries, attempts, jres, jfault, celState, celPct, celErr,
                   celRes, hooks, metric, termPolled, lastPoll, notJobVars>>

\* Lines 453-480 and 681-685: one invocation of lx.async_extract under the
\* retry wrapper; it returns, or raises ValueError or another exception.
LxExtract(j, outcome) ==
    /\ jpc[j] = "invoke"
    /\ llmTries' = [llmTries EXCEPT ![j] = @ + 1]
    /\ IF outcome = "ok"
       THEN /\ jpc' = [jpc EXCEPT ![j] = "post"]
            /\ jerr' = [jerr EXCEPT ![j] = "none"]
       ELSE IF RetriesLx(outcome, llmTries[j] + 1)
       THEN /\ jerr' = [jerr EXCEPT ![j] = outcome]
            /\ UNCHANGED jpc
       ELSE Raise(j, outcome)
    /\ UNCHANGED <<jArgs, retries, attempts, jres, jfault, celState, celPct, celErr,
                   celRes, rstore, cache, hooks, metric, termPolled, lastPoll,
                   notJobVars>>

\* A post_processing report with a percent below the one of extracting.
ReportPostProcessingLow(j) ==
    /\ jpc[j] = "post"
    /\ jpc' = [jpc EXCEPT ![j] = "cache_put"]
    /\ UpdateState(j, 9)
    /\ UNCHANGED <<jArgs, retries, attempts, llmTries, jres, jerr, jfault,
                   celErr, celRes, rstore, cache, hooks, metric, termPolled,
                   lastPoll, notJobVars>>

\* Lines 691-699: progress "post_processing", 90%.
ReportPostProcessing(j) ==
    /\ jpc[j] = "post"
    /\ jpc' = [jpc EXCEPT ![j] = "cache_put"]
    /\ UpdateState(j, 90)
    /\ UNCHANGED <<jArgs, retries, attempts, llmTries, jres, jerr, jfault,
                   celErr, celRes, rstore, cache, hooks, metric, termPolled,
                   lastPoll, notJobVars>>

\* A put that merges its payload into the entry already under the key.
CachePutMerges(j, fails, elapsed_ms) ==
    /\ jpc[j] = "cache_put"
    /\ jres' = [jres EXCEPT ![j] = ResultOf(jArgs[j], elapsed_ms)]
    /\ jpc' = [jpc EXCEPT ![j] = "returned"]
    /\ cache' = [cache EXCEPT ![CacheKeyOf(j)] =
                    IF @ = NoPayload THEN ResultOf(jArgs[j], elapsed_ms)
                    ELSE [@ EXCEPT !.entities = ExtractKwargs(jArgs[j]),
                                   !.cache_hit = TRUE]]
    /\ UNCHANGED <<jArgs, retries, attempts, llmTries, jerr, jfault, celState, celPct,
                   celErr, celRes, rstore, hooks, metric, termPolled, lastPoll,
                   notJobVars>>

\* Lines 701-729: the result dict is built and put in the cache (a backend
\* error leaves the cache as it was), then returned.
CachePut(j, fails, elapsed_ms) ==
    /\ jpc[j] = "cache_put"
    /\ IF BackendSetRaises(fails)
       THEN Raise(j, "CacheError") /\ UNCHANGED <<jres, jfault, cache>>
       ELSE /\ jres' = [jres EXCEPT ![j] = ResultOf(jArgs[j], elapsed_ms)]
            /\ jpc' = [jpc EXCEPT ![j] = "returned"]
            /\ cache' = IF fails THEN cache
                        ELSE [cache EXCEPT ![CacheKeyOf(j)] =
                                ResultOf(jArgs[j], elapsed_ms)]
            /\ jfault' = [jfault EXCEPT ![j] = IF fails THEN @ \cup {"put"} ELSE @]
            /\ UNCHANGED jerr
    /\ UNCHANGED <<jArgs, retries, attempts, llmTries, celState, celPct,
                   celErr, celRes, rstore, hooks, metric, termPolled, lastPoll,
                   notJobVars>>

\* extract_task.py lines 24-54, 108: _store_result_in_redis; a Redis error is
\* logged and swallowed.
StoreResultInRedis(j, fails) ==
    /\ jpc[j] = "returned"
    /\ jpc' = [jpc EXCEPT ![j] = "webhook"]
    /\ rstore' = IF fails THEN rstore ELSE [rstore EXCEPT ![j] = jres[j]]
    /\ UNCHANGED <<jArgs, retries, attempts, llmTries, jres, jerr, jfault,
                   celState, celPct, celErr, celRes, cache, hooks, metric,
                   termPolled, lastPoll, notJobVars>>

\* extract_task.py lines 110-116: the completion webhook.
FireWebhook(j) ==
    /\ jpc[j] = "webhook"
    /\ jpc' = [jpc EXCEPT ![j] = "finish"]
    /\ hooks' = [hooks EXCEPT ![j] = @ + 1]
    /\ UNCHANGED <<jArgs, retries, attempts, llmTries, jres, jerr, jfault,
                   celState, celPct, celErr, celRes, rstore, cache, metric,
                   termPolled, lastPoll, notJobVars>>

\* The attempt is over: its local state is gone.
EndAttempt(j) ==
    /\ jres' = [jres EXCEPT ![j] = NoPayload]
    /\ jerr' = [jerr EXCEPT ![j] = "none"]
    /\ jfault' = [jfault EXCEPT ![j] = {}]
    /\ llmTries' = [llmTries EXCEPT ![j] = 0]

\* metrics.py lines 67-90, record_task_completed(success=..., duration_s=...):
\* the counter of succeeded or of failed tasks is incremented in Redis; when
\* Redis raises, a warning is logged and nothing is counted.
RecordTaskCompleted(j, success, fails) ==
    [metric EXCEPT ![j] = Append(@, IF fails THEN "warning"
                                    ELSE IF success THEN "success" ELSE "failure")]

\* extract_task.py lines 118-122: the success metric, and the return; Celery
\* stores SUCCESS with the result.
TaskSucceed(j, metricFails) ==
    /\ jpc[j] = "finish"
    /\ jpc' = [jpc EXCEPT ![j] = "success"]
    /\ metric' = RecordTaskCompleted(j, TRUE, metricFails)
    /\ celState' = [celState EXCEPT ![j] = "SUCCESS"]
    /\ celPct' = [celPct EXCEPT ![j] = 0]
    /\ celRes' = [celRes EXCEPT ![j] = jres[j]]
    /\ EndAttempt(j)
    /\ UNCHANGED <<jArgs, retries, attempts, celErr, rstore, cache, hooks,
                   termPolled, lastPoll, notJobVars>>

\* A retry budget one attempt too long.
MayRetryOnceMore(j) == retries[j] <= MaxRetries

\* The task decorator, extract_task.py lines 57-62, read by self.retry at line
\* 143: retries remain while self.request.retries < max_retries.
MayRetry(j) == retries[j] < MaxRetries

\* A handler that records the failure metric on every failed attempt.
TaskExceptRecordsEachFailure(j, metricFails) ==
    /\ jpc[j] = "except"
    /\ metric' = RecordTaskCompleted(j, FALSE, metricFails)
    /\ IF MayRetry(j)
       THEN /\ jpc' = [jpc EXCEPT ![j] = "queued"]
            /\ retries' = [retries EXCEPT ![j] = @ + 1]
            /\ celState' = [celState EXCEPT ![j] = "RETRY"]
            /\ celErr' = [celErr EXCEPT ![j] = jerr[j]]
       ELSE /\ jpc' = [jpc EXCEPT ![j] = "failure"]
            /\ celState' = [celState EXCEPT ![j] = "FAILURE"]
            /\ celErr' = [celErr EXCEPT ![j] = jerr[j]]
            /\ UNCHANGED retries
    /\ celPct' = [celPct EXCEPT ![j] = 0]
    /\ EndAttempt(j)
    /\ UNCHANGED <<jArgs, attempts, celRes, rstore, cache, hooks, termPolled,
                   lastPoll, notJobVars>>

\* extract_task.py lines 128-143: the handler of an attempt's exception.  The
\* failure metric is recorded on the final attempt; self.retry re-enqueues the
\* task under its id with retries + 1 (Celery stores RETRY), or, the budget
\* used up, re-raises the exception (Celery stores FAILURE with it).
TaskExcept(j, metricFails) ==
    /\ jpc[j] = "except"
    /\ metric' = IF retries[j] >= MaxRetries
                 THEN RecordTaskCompleted(j, FALSE, metricFails) ELSE metric
    /\ IF MayRetry(j)
       THEN /\ jpc' = [jpc EXCEPT ![j] = "queued"]
            /\ retries' = [retries EXCEPT ![j] = @ + 1]
            /\ celState' = [celState EXCEPT ![j] = "RETRY"]
            /\ celErr' = [celErr EXCEPT ![j] = jerr[j]]
       ELSE /\ jpc' = [jpc EXCEPT ![j] = "failure"]
            /\ celState' = [celState EXCEPT ![j] = "FAILURE"]
            /\ celErr' = [celErr EXCEPT ![j] = jerr[j]]
            /\ UNCHANGED retries
    /\ celPct' = [celPct EXCEPT ![j] = 0]
    /\ EndAttempt(j)
    /\ UNCHANGED <<jArgs, attempts, celRes, rstore, cache, hooks, termPolled,
                   lastPoll, notJobVars>>

Terminal == {"success", "failure"}

\* result_expires: Celery's backend drops the finished task's meta, after
\* which AsyncResult reports PENDING, as for an unknown id.
BackendExpire(j) ==
    /\ jpc[j] \in Terminal
    /\ celState[j] # "PENDING"
    /\ celState' = [celState EXCEPT ![j] = "PENDING"]
    /\ celErr' = [celErr EXCEPT ![j] = "none"]
    /\ celRes' = [celRes EXCEPT ![j] = NoPayload]
    /\ UNCHANGED <<jArgs, jpc, retries, attempts, llmTries, jres, jerr,
                   jfault, celPct, rstore, cache, hooks, metric, termPolled,
                   lastPoll, notJobVars>>

\* The TTL (RESULT_EXPIRES) of task_result:{id} runs out.
ResultExpire(j) ==
    /\ jpc[j] \in Terminal
    /\ rstore[j] # NoPayload
    /\ rstore' = [rstore EXCEPT ![j] = NoPayload]
    /\ UNCHANGED <<jArgs, jpc, retries, attempts, llmTries, jres, jerr,
                   jfault, celState, celPct, celErr, celRes, cache, hooks, metric,
                   termPolled, lastPoll, notJobVars>>

\* tasks.py lines 25-51: the stored result, or None when there is none or the
\* lookup fails.
FetchRedisResult(j, fails) == IF fails THEN NoPayload ELSE rstore[j]

\* A poll that takes a failed or empty lookup for a stored result.
PollStateNoNoneCheck(j, fails) ==
    IF celState[j] = "PENDING" THEN "SUCCESS" ELSE celState[j]

\* tasks.py lines 66-91: the state get_task_status reports.
PollState(j, fails) ==
    IF celState[j] = "PENDING"
    THEN IF FetchRedisResult(j, fails) # NoPayload THEN "SUCCESS" ELSE "PENDING"
    ELSE celState[j]

\* TaskStatusResponse: the fields that are not set are "none" / NoPayload.
StatusResponse(state, result, progress, error) ==
    [state |-> state, result |-> result, progress |-> progress, error |-> error]

WaitingMessage == "Task is waiting to be processed"

\* A poll that reports the failure of the fallback lookup to the caller.
PollResponseSurfacesLookupError(j, fails) ==
    CASE celState[j] = "PENDING" /\ fails ->
            StatusResponse("PENDING", NoPayload, "none", "RedisError")
      [] celState[j] = "PENDING" /\ ~fails ->
            IF rstore[j] # NoPayload
            THEN StatusResponse("SUCCESS", rstore[j], "none", "none")
            ELSE StatusResponse("PENDING", NoPayload, WaitingMessage, "none")
      [] celState[j] = "PROGRESS" ->
            StatusResponse(celState[j], NoPayload, celPct[j], "none")
      [] celState[j] = "SUCCESS" ->
            StatusResponse(celState[j], celRes[j], "none", "none")
      [] celState[j] = "FAILURE" ->
            StatusResponse(celState[j], NoPayload, "none", celErr[j])
      [] OTHER -> StatusResponse(celState[j], NoPayload, "none", "none")

\* tasks.py lines 66-91: the response of get_task_status.
PollResponse(j, fails) ==
    CASE celState[j] = "PENDING" ->
            IF FetchRedisResult(j, fails) # NoPayload
            THEN StatusResponse(PollState(j, fails), FetchRedisResult(j, fails),
                                "none", "none")
            ELSE StatusResponse(PollState(j, fails), NoPayload, WaitingMessage, "none")
      [] celState[j] = "PROGRESS" ->
            StatusResponse(PollState(j, fails), NoPayload, celPct[j], "none")
      [] celState[j] = "SUCCESS" ->
            StatusResponse(PollState(j, fails), celRes[j], "none", "none")
      [] celState[j] = "FAILURE" ->
            StatusResponse(PollState(j, fails), NoPayload, "none", celErr[j])
      [] OTHER -> StatusResponse(PollState(j, fails), NoPayload, "none", "none")

\* GET /tasks/{id}.
GetTaskStatus(j, fails) ==
    LET state == PollResponse(j, fails).state
        first == IF termPolled[j] = "none" /\ state \in {"SUCCESS", "FAILURE"}
                 THEN state ELSE termPolled[j]
    IN  /\ termPolled' = [termPolled EXCEPT ![j] = first]
        /\ lastPoll' = [lastPoll EXCEPT ![j] = IF first = "none" THEN "none" ELSE state]
        /\ UNCHANGED <<jArgs, jpc, retries, attempts, llmTries, jres, jerr,
                       jfault, celState, celPct, celErr, celRes, rstore, cache,
                       hooks, metric, notJobVars>>

\* The steps of the worker that runs task j.
JobStep(j) ==
    \/ TaskStart(j)
    \/ ReportPreparing(j)
    \/ \E fails \in BOOLEAN : ResolveInput(j, fails)
    \/ \E fails \in BOOLEAN : CacheLookup(j, fails, HitElapsedMs)
    \/ ReportExtracting(j)
    \/ \E outcome \in {"ok", "ValueError", "OtherError"} : LxExtract(j, outcome)
    \/ ReportPostProcessing(j)
    \/ \E fails \in BOOLEAN : CachePut(j, fails, RunElapsedMs)
    \/ \E fails \in BOOLEAN : StoreResultInRedis(j, fails)
    \/ FireWebhook(j)
    \/ TaskSucceed(j, FALSE)
    \/ TaskExcept(j, FALSE)

\* The state of the poller's variables in the specifications without one.
ProgIdle == seenPct = <<>> /\ seenAtt = <<>> /\ seenDrop = <<>>

\* No progress response has been received.
ProgInit ==
    /\ seenPct = [j \in Jobs |-> 0]
    /\ seenAtt = [j \in Jobs |-> 0]
    /\ seenDrop = [j \in Jobs |-> "none"]

\* tasks.py lines 66-91, the PROGRESS branch: GET /tasks/{id} while the task
\* is in PROGRESS answers with the stored meta, whose percent the poller
\* compares with the one it saw before.
PollProgress(j) ==
    LET resp == PollResponse(j, FALSE)
    IN  /\ resp.state = "PROGRESS"
        /\ seenPct' = [seenPct EXCEPT ![j] = resp.progress]
        /\ seenAtt' = [seenAtt EXCEPT ![j] = attempts[j]]
        /\ seenDrop' = [seenDrop EXCEPT ![j] =
                          IF resp.progress >= seenPct[j] \/ @ = "attempt" THEN @
                          ELSE IF attempts[j] = seenAtt[j] THEN "attempt"
                          ELSE "retry"]
        /\ UNCHANGED notProgVars

\* A step of the worker on task j: the model call may raise; the download,
\* the cache backend and the result store answer.
ProgressJobStep(j) ==
    \/ TaskStart(j)
    \/ ReportPreparing(j)
    \/ ResolveInput(j, FALSE)
    \/ CacheLookup(j, FALSE, HitElapsedMs)
    \/ ReportExtracting(j)
    \/ \E outcome \in {"ok", "OtherError"} : LxExtract(j, outcome)
    \/ ReportPostProcessing(j)
    \/ CachePut(j, FALSE, RunElapsedMs)
    \/ StoreResultInRedis(j, FALSE)
    \/ FireWebhook(j)
    \/ TaskSucceed(j, FALSE)
    \/ TaskExcept(j, FALSE)

\* A step of the worker on task j: the model call may raise and Redis may
\* reject the metric; the download, the cache backend and the result store
\* answer.
MetricJobStep(j) ==
    \/ TaskStart(j)
    \/ ReportPreparing(j)
    \/ ResolveInput(j, FALSE)
    \/ CacheLookup(j, FALSE, HitElapsedMs)
    \/ ReportExtracting(j)
    \/ \E outcome \in {"ok", "OtherError"} : LxExtract(j, outcome)
    \/ ReportPostProcessing(j)
    \/ CachePut(j, FALSE, RunElapsedMs)
    \/ StoreResultInRedis(j, FALSE)
    \/ FireWebhook(j)
    \/ \E metricFails \in BOOLEAN : TaskSucceed(j, metricFails)
    \/ \E metricFails \in BOOLEAN : TaskExcept(j, metricFails)

MetricNext == \E j \in Jobs : MetricJobStep(j)

\* The worker and the poller.
ProgressNext ==
    \/ \E j \in Jobs : ProgressJobStep(j)
    \/ \E j \in Jobs : PollProgress(j)

\* Workers of the pool in which two tasks with one cache key run side by side.
RaceWorkers == 2

\* Two tasks enqueued with the same arguments.
RaceInit == JobInit /\ jArgs[2] = jArgs[1]

\* A free worker of that pool takes the task from the queue.
TaskStartInPool(j) ==
    /\ jpc[j] = "queued"
    /\ Cardinality(Running) < RaceWorkers
    /\ jpc' = [jpc EXCEPT ![j] = "preparing"]
    /\ attempts' = [attempts EXCEPT ![j] = @ + 1]
    /\ celState' = [celState EXCEPT ![j] = "STARTED"]
    /\ celPct' = [celPct EXCEPT ![j] = 0]
    /\ UNCHANGED <<jArgs, retries, llmTries, jres, jerr, jfault, celErr, celRes,
                   rstore, cache, hooks, metric, termPolled, lastPoll, notJobVars>>

\* The elapsed time task j measures: the two tasks' payloads differ in it.
RaceElapsedMs(j) == RunElapsedMs + j

\* A step of task j when nothing of its environment fails: the download, the
\* cache backend, the model and the result store all answer.
RaceStep(j) ==
    \/ TaskStartInPool(j)
    \/ ReportPreparing(j)
    \/ ResolveInput(j, FALSE)
    \/ CacheLookup(j, FALSE, HitElapsedMs)
    \/ ReportExtracting(j)
    \/ LxExtract(j, "ok")
    \/ ReportPostProcessing(j)
    \/ CachePut(j, FALSE, RaceElapsedMs(j))
    \/ StoreResultInRedis(j, FALSE)
    \/ FireWebhook(j)
    \/ TaskSucceed(j, FALSE)

RaceNext == \E j \in Jobs : RaceStep(j)

\* Task j is in the queue or past it: submit_extraction enqueues the tasks
\* under the ids 1, 2, ...
Enqueued(j) == nextTask > j

\* A step of the worker on an enqueued task whose document cannot be
\* downloaded: every attempt raises, and the task fails for good with the
\* fourth.
ResubmitJobStep(j) ==
    /\ Enqueued(j)
    /\ \/ TaskStart(j)
       \/ ReportPreparing(j)
       \/ ResolveInput(j, TRUE)
       \/ TaskExcept(j, FALSE)

\* The key the callers of this specification submit under.
ResubmitKey == 1

\* submit_extraction calls under one idempotency_key and the worker, side by
\* side.
ResubmitNext ==
    \/ \E r \in Reqs, fails \in BOOLEAN : SubmitRead(r, ResubmitKey, fails)
    \/ \E r \in Reqs : SubmitEnqueue(r)
    \/ \E r \in Reqs, fails \in BOOLEAN : SubmitWrite(r, fails)
    \/ SubmitTick
    \/ \E j \in Jobs : ResubmitJobStep(j)

\* Every submitted task carries the same arguments.
ResubmitInit == SubmitInit /\ JobInit /\ \A j \in Jobs : jArgs[j] = BaseArgs

\* A step of some worker.
WorkerNext == \E j \in Jobs : JobStep(j)

JobNext ==
    \/ WorkerNext
    \/ \E j \in Jobs : BackendExpire(j)
    \/ \E j \in Jobs : ResultExpire(j)
    \/ \E j \in Jobs, fails \in BOOLEAN : GetTaskStatus(j, fails)

(***************************************************************************)
(* POST /extract/batch and the finalize_batch task                         *)
(***************************************************************************)
\* Documents in a batch request, at most.
MaxDocs == 2
\* max_retries of finalize_batch.
FINALIZE_MAX_RETRIES == 720
\* The countdown of its retries, in seconds.
FINALIZE_COUNTDOWN_S == 5
\* The countdown the route enqueues it with.
FinalizeFirstCountdown == 2

\* A document: its document_url ("" when it carries raw_text instead).
DocChoices == {[document_url |-> ""], [document_url |-> "u1"]}

NoAggregate ==
    [status |-> "none", total |-> 0, successful |-> 0, failed |-> 0,
     results |-> <<>>, errors |-> <<>>, document_task_ids |-> <<>>]

NoResponse == [batch_task_id |-> 0, document_task_ids |-> <<>>]

BatchInit ==
    /\ bDocs \in UNION {[1..n -> DocChoices] : n \in 1..MaxDocs}
    /\ bCallback \in BOOLEAN
    /\ bpc = "start"
    /\ bResp = NoResponse
    /\ chIds = <<>>
    /\ chDoc = <<>>
    /\ chState = <<>>
    /\ fId = 0
    /\ fpc = "none"
    /\ fRetries = 0
    /\ fCountdown = 0
    /\ fRuns = 0
    /\ fChecks = 0
    /\ fProgress = -1
    /\ fAgg = NoAggregate
    /\ bStore = NoAggregate
    /\ bStoreCalls = 0
    /\ bHookCalls = 0

\* The state of the batch variables in the specifications that submit no batch.
BatchIdle ==
    /\ bDocs = <<>> /\ bCallback = FALSE /\ bpc = "" /\ bResp = NoResponse
    /\ chIds = <<>> /\ chDoc = <<>> /\ chState = <<>> /\ fId = 0 /\ fpc = ""
    /\ fRetries = 0
    /\ fCountdown = 0 /\ fRuns = 0 /\ fChecks = 0 /\ fProgress = -1
    /\ fAgg = NoAggregate /\ bStore = NoAggregate /\ bStoreCalls = 0
    /\ bHookCalls = 0

\* batch.py lines 48-62: a document's URL, or the batch callback_url, fails
\* validation; HTTP 400.
BatchReject ==
    /\ bpc = "start"
    /\ bCallback \/ \E i \in 1..Len(bDocs) : bDocs[i].document_url # ""
    /\ bpc' = "rejected"
    /\ UNCHANGED <<bDocs, bCallback, bResp, chIds, chDoc, chState, fId, fpc, fRetries,
                   fCountdown, fRuns, fChecks, fProgress, fAgg, bStore,
                   bStoreCalls, bHookCalls, notBatchVars>>

\* A dispatch that returns the children's ids in the reverse of document order.
BatchDispatchReversed ==
    /\ bpc = "start"
    /\ bpc' = "dispatched"
    /\ chDoc' = bDocs
    /\ chIds' = [i \in 1..Len(bDocs) |-> Len(bDocs) + 1 - i]
    /\ chState' = [i \in 1..Len(bDocs) |-> "PENDING"]
    /\ UNCHANGED <<bDocs, bCallback, bResp, fId, fpc, fRetries, fCountdown, fRuns,
                   fChecks, fProgress, fAgg, bStore, bStoreCalls, bHookCalls,
                   notBatchVars>>

\* batch.py lines 64-92: one extract_document signature per document, sent as
\* a group; child_ids are the ids of the group's children, in document order.
BatchDispatch ==
    /\ bpc = "start"
    /\ bpc' = "dispatched"
    /\ chDoc' = bDocs
    /\ chIds' = [i \in 1..Len(bDocs) |-> i]
    /\ chState' = [i \in 1..Len(bDocs) |-> "PENDING"]
    /\ UNCHANGED <<bDocs, bCallback, bResp, fId, fpc, fRetries, fCountdown, fRuns,
                   fChecks, fProgress, fAgg, bStore, bStoreCalls, bHookCalls,
                   notBatchVars>>

\* batch.py lines 94-106: finalize_batch.apply_async(kwargs=..., countdown=2).
BatchEnqueueFinalize ==
    /\ bpc = "dispatched"
    /\ bpc' = "enqueued"
    /\ fId' = Len(chIds) + 1
    /\ fpc' = "scheduled"
    /\ fCountdown' = FinalizeFirstCountdown
    /\ UNCHANGED <<bDocs, bCallback, bResp, chIds, chDoc, chState, fRetries, fRuns,
                   fChecks, fProgress, fAgg, bStore, bStoreCalls, bHookCalls,
                   notBatchVars>>

\* batch.py lines 108-118: the response.
BatchRespond ==
    /\ bpc = "enqueued"
    /\ bpc' = "responded"
    /\ bResp' = [batch_task_id |-> fId, document_task_ids |-> chIds]
    /\ UNCHANGED <<bDocs, bCallback, chIds, chDoc, chState, fId, fpc, fRetries, fCountdown,
                   fRuns, fChecks, fProgress, fAgg, bStore, bStoreCalls,
                   bHookCalls, notBatchVars>>

\* A child extract_document task ends: SUCCESS or FAILURE is stored for its id.
ChildEnds(i, state) ==
    /\ i \in 1..Len(chState)
    /\ chState[i] = "PENDING"
    /\ chState' = [chState EXCEPT ![i] = state]
    /\ UNCHANGED <<bDocs, bCallback, bpc, bResp, chIds, chDoc, fId, fpc, fRetries,
                   fCountdown, fRuns, fChecks, fProgress, fAgg, bStore,
                   bStoreCalls, bHookCalls, notBatchVars>>

\* AsyncResult.ready()
Ready(i) == chState[i] \in {"SUCCESS", "FAILURE"}

\* batch_task.py line 70: the children that are ready.
Completed == Cardinality({i \in 1..Len(chState) : Ready(i)})

\* A poll that waits for the children inside the run: it checks again
\* without rescheduling.
FinalizePollBlocking ==
    /\ fpc = "scheduled"
    /\ fChecks' = fChecks + 1
    /\ IF \A i \in 1..Len(chState) : Ready(i)
       THEN /\ fpc' = "aggregating"
            /\ fRuns' = fRuns + 1
            /\ UNCHANGED <<fProgress, fRetries, fCountdown>>
       ELSE /\ fProgress' = Completed
            /\ UNCHANGED <<fpc, fRuns, fRetries, fCountdown>>
    /\ UNCHANGED <<bDocs, bCallback, bpc, bResp, chIds, chDoc, chState, fId, fAgg, bStore,
                   bStoreCalls, bHookCalls, notBatchVars>>

\* A retry budget one run too long.
FinalizeMayRetryOnceMore == fRetries <= FINALIZE_MAX_RETRIES

\* batch_task.py line 82.
FinalizeMayRetry == fRetries < FINALIZE_MAX_RETRIES

\* batch_task.py lines 65-91: a run of finalize_batch up to the aggregation.
\* It passes once over the children's readiness; if some child is not ready
\* it reports progress and, retries remaining, re-enqueues itself with the
\* countdown and ends; otherwise it goes on to aggregate.
FinalizePoll ==
    /\ fpc = "scheduled"
    /\ fRuns' = fRuns + 1
    /\ fChecks' = fChecks + 1
    /\ IF \A i \in 1..Len(chState) : Ready(i)
       THEN /\ fpc' = "aggregating"
            /\ UNCHANGED <<fProgress, fRetries, fCountdown>>
       ELSE /\ fProgress' = Completed
            /\ IF FinalizeMayRetry
               THEN /\ fRetries' = fRetries + 1
                    /\ fCountdown' = FINALIZE_COUNTDOWN_S
                    /\ UNCHANGED fpc
               ELSE /\ fpc' = "aggregating"
                    /\ UNCHANGED <<fRetries, fCountdown>>
    /\ UNCHANGED <<bDocs, bCallback, bpc, bResp, chIds, chDoc, chState, fId, fAgg, bStore,
                   bStoreCalls, bHookCalls, notBatchVars>>

\* batch_task.py line 102.
SourceOf(doc) == IF doc.document_url = "" THEN "<raw_text>" ELSE doc.document_url

\* child.result of a successful child: the payload of the task with that id.
PayloadOf(id) == [task |-> id]

\* batch_task.py lines 106-109: the errors entry of a child that is not successful.
ErrorOf(i) ==
    [source |-> SourceOf(bDocs[i]),
     error |-> IF chState[i] = "FAILURE" THEN "error" ELSE "Unknown error"]

\* batch_task.py lines 94-109: the results built by the loop over the first n
\* children.
RECURSIVE ResultsUpTo(_)
ResultsUpTo(n) ==
    IF n = 0 THEN <<>>
    ELSE IF chState[n] = "SUCCESS"
         THEN Append(ResultsUpTo(n - 1), PayloadOf(chIds[n]))
         ELSE ResultsUpTo(n - 1)

\* An errors list that attributes every error to the first document.
RECURSIVE ErrorsUpToFirstSource(_)
ErrorsUpToFirstSource(n) ==
    IF n = 0 THEN <<>>
    ELSE IF chState[n] = "SUCCESS"
         THEN ErrorsUpToFirstSource(n - 1)
         ELSE Append(ErrorsUpToFirstSource(n - 1),
                     [ErrorOf(n) EXCEPT !.source = SourceOf(bDocs[1])])

\* An errors list that leaves out the children that are not ready.
RECURSIVE ErrorsUpToReadyOnly(_)
ErrorsUpToReadyOnly(n) ==
    IF n = 0 THEN <<>>
    ELSE IF chState[n] = "FAILURE"
         THEN Append(ErrorsUpToReadyOnly(n - 1), ErrorOf(n))
         ELSE ErrorsUpToReadyOnly(n - 1)

\* batch_task.py lines 94-109: the errors built by the loop.
RECURSIVE ErrorsUpTo(_)
ErrorsUpTo(n) ==
    IF n = 0 THEN <<>>
    ELSE IF chState[n] = "SUCCESS"
         THEN ErrorsUpTo(n - 1)
         ELSE Append(ErrorsUpTo(n - 1), ErrorOf(n))

\* batch_task.py lines 111-120: batch_result.
BatchResult ==
    [status |-> "completed", total |-> Len(chIds),
     successful |-> Len(ResultsUpTo(Len(chIds))),
     failed |-> Len(ErrorsUpTo(Len(chIds))),
     results |-> ResultsUpTo(Len(chIds)),
     errors |-> ErrorsUpTo(Len(chIds)),
     document_task_ids |-> chIds]

\* An aggregation that persists and notifies a second time.
FinalizeAggregateTwice(storeFails) ==
    /\ fpc = "aggregating"
    /\ fpc' = "done"
    /\ fAgg' = BatchResult
    /\ bHookCalls' = IF bCallback THEN bHookCalls + 2 ELSE bHookCalls
    /\ bStoreCalls' = bStoreCalls + 2
    /\ bStore' = IF storeFails THEN bStore ELSE BatchResult
    /\ UNCHANGED <<bDocs, bCallback, bpc, bResp, chIds, chDoc, chState, fId, fRetries,
                   fCountdown, fRuns, fChecks, fProgress, notBatchVars>>

\* batch_task.py lines 93-135: the aggregation; the webhook, if a callback_url
\* was given; the result persisted under the task's id (a Redis error is
\* logged and swallowed); the return.
FinalizeAggregate(storeFails) ==
    /\ fpc = "aggregating"
    /\ fpc' = "done"
    /\ fAgg' = BatchResult
    /\ bHookCalls' = IF bCallback THEN bHookCalls + 1 ELSE bHookCalls
    /\ bStoreCalls' = bStoreCalls + 1
    /\ bStore' = IF storeFails THEN bStore ELSE BatchResult
    /\ UNCHANGED <<bDocs, bCallback, bpc, bResp, chIds, chDoc, chState, fId, fRetries,
                   fCountdown, fRuns, fChecks, fProgress, notBatchVars>>

\* The aggregation in the two steps it is made of.  batch_task.py lines
\* 93-127: the aggregate is built and, if a callback_url was given,
\* fire_webhook is called with it.
FinalizeNotify ==
    /\ fpc = "aggregating"
    /\ fpc' = "notified"
    /\ fAgg' = BatchResult
    /\ bHookCalls' = IF bCallback THEN bHookCalls + 1 ELSE bHookCalls
    /\ UNCHANGED <<bDocs, bCallback, bpc, bResp, chIds, chDoc, chState, fId, fRetries,
                   fCountdown, fRuns, fChecks, fProgress, bStore, bStoreCalls,
                   notBatchVars>>

\* batch_task.py lines 129-135: _store_result_in_redis(self.request.id,
\* batch_result), a Redis error logged and swallowed; the return.
FinalizePersist(storeFails) ==
    /\ fpc = "notified"
    /\ fpc' = "done"
    /\ bStoreCalls' = bStoreCalls + 1
    /\ bStore' = IF storeFails THEN bStore ELSE fAgg
    /\ UNCHANGED <<bDocs, bCallback, bpc, bResp, chIds, chDoc, chState, fId, fRetries,
                   fCountdown, fRuns, fChecks, fProgress, fAgg, bHookCalls,
                   notBatchVars>>

\* The steps of the batch with the aggregation taken in its two steps.
BatchOrderNext ==
    \/ BatchDispatch
    \/ BatchEnqueueFinalize
    \/ BatchRespond
    \/ \E i \in 1..MaxDocs, state \in {"SUCCESS", "FAILURE"} : ChildEnds(i, state)
    \/ FinalizePoll
    \/ FinalizeNotify
    \/ \E storeFails \in BOOLEAN : FinalizePersist(storeFails)

\* The steps of finalize_batch.
FinalizeNext ==
    \/ FinalizePoll
    \/ \E storeFails \in BOOLEAN : FinalizeAggregate(storeFails)

\* The steps of the route handler.
BatchRouteNext ==
    \/ BatchReject
    \/ BatchDispatch
    \/ BatchEnqueueFinalize
    \/ BatchRespond

BatchNext ==
    \/ BatchReject
    \/ BatchDispatch
    \/ BatchEnqueueFinalize
    \/ BatchRespond
    \/ \E i \in 1..MaxDocs, state \in {"SUCCESS", "FAILURE"} : ChildEnds(i, state)
    \/ FinalizeNext

(***************************************************************************)
(* ConsensusLanguageModel: _select_consensus_output, infer, async_infer     *)
(***************************************************************************)
\* Providers wrapped by the consensus model, at most (at least 2: line 174).
MaxProviders == 3

IsSpace(ch) == ch = <<32>>

\* str.lower() on a character.
LowerChar(ch) == IF ch[1] >= 65 /\ ch[1] <= 90 THEN <<ch[1] + 32>> ELSE ch

Lower(text) == [i \in 1..Len(text) |-> LowerChar(text[i])]

\* str.strip()
RECURSIVE Strip(_)
Strip(text) ==
    IF text = <<>> THEN <<>>
    ELSE IF IsSpace(Head(text)) THEN Strip(Tail(text))
    ELSE IF IsSpace(text[Len(text)]) THEN Strip(SubSeq(text, 1, Len(text) - 1))
    ELSE text

\* _WHITESPACE_RE.sub(" ", text): every run of whitespace becomes one space.
RECURSIVE CollapseWhitespace(_)
CollapseWhitespace(text) ==
    IF Len(text) < 2 THEN text
    ELSE IF IsSpace(text[1]) /\ IsSpace(text[2])
         THEN CollapseWhitespace(Tail(text))
         ELSE <<Head(text)>> \o CollapseWhitespace(Tail(text))

\* Line 44.
NormaliseText(text) == CollapseWhitespace(Strip(Lower(text)))

\* str.split(): the words of a text, `word` being the word read so far.
RECURSIVE SplitWords(_, _)
SplitWords(text, word) ==
    IF text = <<>> THEN (IF word = <<>> THEN {} ELSE {word})
    ELSE IF IsSpace(Head(text))
         THEN (IF word = <<>> THEN {} ELSE {word}) \cup SplitWords(Tail(text), <<>>)
         ELSE SplitWords(Tail(text), Append(word, Head(text)))

\* Line 56.
WordSet(text) == SplitWords(NormaliseText(text), <<>>)

\* Lines 72-79: the similarity as a fraction <<numerator, denominator>>.
JaccardSimilarity(a, b) ==
    IF WordSet(a) \cup WordSet(b) = {} THEN <<1, 1>>
    ELSE <<Cardinality(WordSet(a) \cap WordSet(b)),
           Cardinality(WordSet(a) \cup WordSet(b))>>

\* x >= y for fractions with positive denominators.
FracGeq(x, y) == x[1] * y[2] >= y[1] * x[2]

\* Lines 115-120: the agreement count of candidate i.
Agreement(outputs, i, threshold) ==
    1 + Cardinality({j \in 1..Len(outputs) :
                        j # i /\ FracGeq(JaccardSimilarity(outputs[i], outputs[j]),
                                         threshold)})

\* A scan in which a later candidate with the same count takes over.
RECURSIVE BestUpToLastWins(_, _, _)
BestUpToLastWins(outputs, threshold, k) ==
    IF k = 0 THEN <<1, 0>>
    ELSE LET best == BestUpToLastWins(outputs, threshold, k - 1)
             agreement == Agreement(outputs, k, threshold)
         IN  IF agreement >= best[2] THEN <<k, agreement>> ELSE best

\* Lines 111-123: <<best_idx, best_agreement>> after the first k candidates.
RECURSIVE BestUpTo(_, _, _)
BestUpTo(outputs, threshold, k) ==
    IF k = 0 THEN <<1, 0>>
    ELSE LET best == BestUpTo(outputs, threshold, k - 1)
             agreement == Agreement(outputs, k, threshold)
         IN  IF agreement > best[2] THEN <<k, agreement>> ELSE best

\* ScoredOutput(score, output); the score is a fraction.
Scored(output, score) == [output |-> output, score |-> score]

NoScored == Scored(<<>>, <<0, 0>>)

\* Lines 104-125.
SelectConsensusOutput(outputs, threshold) ==
    IF outputs = <<>> THEN Scored(<<>>, <<0, 1>>)
    ELSE IF Len(outputs) = 1 THEN Scored(outputs[1], <<1, 1>>)
    ELSE LET best == BestUpTo(outputs, threshold, Len(outputs))
         IN  Scored(outputs[best[1]], <<best[2], Len(outputs)>>)

\* The outputs a provider may give: "a b", " A  b " (the same words), "a c",
\* "a b c", and the empty output.
OutputChoices ==
    {Str(<<97, 32, 98>>), Str(<<32, 65, 32, 32, 98, 32>>), Str(<<97, 32, 99>>),
     Str(<<97, 32, 98, 32, 99>>), <<>>}

\* A provider's call raises, or returns for the prompt a sequence of scored
\* outputs, which may be empty; only its first output is looked at.
OutcomeChoices ==
    {[raises |-> TRUE, scored_seq |-> <<>>]} \cup
    {[raises |-> FALSE, scored_seq |-> <<o>>] : o \in OutputChoices} \cup
    {[raises |-> FALSE, scored_seq |-> <<>>]}

\* Lines 222-228: the candidates of the prompt, one per model result that
\* has an output for it.
RECURSIVE CandidateOutputs(_)
CandidateOutputs(all_model_results) ==
    IF all_model_results = <<>> THEN <<>>
    ELSE (IF Head(all_model_results) # <<>>
          THEN <<Head(all_model_results)[1]>> ELSE <<>>)
         \o CandidateOutputs(Tail(all_model_results))

ThresholdChoices == {<<6, 10>>, <<7, 10>>}

NumProviders == Len(cOutcomes)

ConsInit ==
    /\ cOutcomes \in UNION {[1..n -> OutcomeChoices] : n \in 2..MaxProviders}
    /\ cThr \in ThresholdChoices
    /\ sPc = "calling"
    /\ sNext = 1
    /\ sResults = <<>>
    /\ sOut = NoScored
    /\ aPc = "gathering"
    /\ aSlots = [i \in DOMAIN cOutcomes |-> "pending"]
    /\ aOrder = <<>>
    /\ aOut = NoScored

\* The state of the consensus variables in the other specifications.
ConsIdle ==
    /\ cOutcomes = <<>> /\ cThr = <<0, 1>> /\ sPc = "" /\ sNext = 0
    /\ sResults = <<>> /\ sOut = NoScored /\ aPc = "" /\ aSlots = <<>>
    /\ aOrder = <<>> /\ aOut = NoScored

\* A loop in which a provider's exception leaves infer.
InferCallPropagates ==
    /\ sPc = "calling"
    /\ sNext <= NumProviders
    /\ IF cOutcomes[sNext].raises
       THEN sPc' = "raised" /\ UNCHANGED <<sNext, sResults>>
       ELSE /\ sResults' = Append(sResults, cOutcomes[sNext].scored_seq)
            /\ sNext' = sNext + 1
            /\ UNCHANGED sPc
    /\ UNCHANGED <<cOutcomes, cThr, sOut, aPc, aSlots, aOrder, aOut, notConsVars>>

\* Lines 204-212: the loop calls the next provider; its result is appended,
\* or its exception logged and the provider skipped.
InferCall ==
    /\ sPc = "calling"
    /\ sNext <= NumProviders
    /\ sResults' = IF cOutcomes[sNext].raises THEN sResults
                   ELSE Append(sResults, cOutcomes[sNext].scored_seq)
    /\ sNext' = sNext + 1
    /\ UNCHANGED <<cOutcomes, cThr, sPc, sOut, aPc, aSlots, aOrder, aOut, notConsVars>>

\* A selection whose score is taken over the configured providers.
InferSelectOverConfigured ==
    /\ sPc = "calling"
    /\ sNext > NumProviders
    /\ sPc' = "done"
    /\ sOut' = IF sResults = <<>> THEN Scored(<<>>, <<0, 1>>)
               ELSE LET sel == SelectConsensusOutput(CandidateOutputs(sResults), cThr)
                    IN  Scored(sel.output, <<sel.score[1], NumProviders>>)
    /\ UNCHANGED <<cOutcomes, cThr, sNext, sResults, aPc, aSlots, aOrder, aOut,
                   notConsVars>>

\* Lines 214-234: no provider answered: the empty output with score 0.0;
\* otherwise the selection over the candidates.
InferSelect ==
    /\ sPc = "calling"
    /\ sNext > NumProviders
    /\ sPc' = "done"
    /\ sOut' = IF sResults = <<>> THEN Scored(<<>>, <<0, 1>>)
               ELSE SelectConsensusOutput(CandidateOutputs(sResults), cThr)
    /\ UNCHANGED <<cOutcomes, cThr, sNext, sResults, aPc, aSlots, aOrder, aOut,
                   notConsVars>>

\* Lines 257-270: the call of provider i, awaited concurrently with the
\* others, completes: _safe_infer returns its result, or None if it raised.
AsyncCallCompletes(i) ==
    /\ aPc = "gathering"
    /\ i \in DOMAIN aSlots
    /\ aSlots[i] = "pending"
    /\ aSlots' = [aSlots EXCEPT ![i] = IF cOutcomes[i].raises THEN "None" ELSE "result"]
    /\ aOrder' = Append(aOrder, i)
    /\ UNCHANGED <<cOutcomes, cThr, sPc, sNext, sResults, sOut, aPc, aOut, notConsVars>>

\* The results of the calls that returned, taken from `order`.
RECURSIVE ResultsIn(_)
ResultsIn(order) ==
    IF order = <<>> THEN <<>>
    ELSE IF aSlots[Head(order)] = "result"
         THEN <<cOutcomes[Head(order)].scored_seq>> \o ResultsIn(Tail(order))
         ELSE ResultsIn(Tail(order))

\* Results collected in the order the calls completed.
GatheredAsCompleted == ResultsIn(aOrder)

\* Lines 272-273: asyncio.gather returns the results in the order of the
\* providers; the None entries are dropped.
Gathered == ResultsIn([i \in 1..NumProviders |-> i])

\* Lines 272-295: every call has completed; the selection as in infer.
AsyncSelect ==
    /\ aPc = "gathering"
    /\ \A i \in DOMAIN aSlots : aSlots[i] # "pending"
    /\ aPc' = "done"
    /\ aOut' = IF Gathered = <<>> THEN Scored(<<>>, <<0, 1>>)
               ELSE SelectConsensusOutput(CandidateOutputs(Gathered), cThr)
    /\ UNCHANGED <<cOutcomes, cThr, sPc, sNext, sResults, sOut, aSlots, aOrder,
                   notConsVars>>

ConsNext ==
    \/ InferCall
    \/ InferSelect
    \/ \E i \in 1..MaxProviders : AsyncCallCompletes(i)
    \/ AsyncSelect

(***************************************************************************)
(* run_extraction and async_run_extraction side by side                    *)
(***************************************************************************)
\* One thing a run did: a progress report (n the percentage), a URL
\* validation, a download, a cache lookup, a hit or miss metric, a model
\* invocation (n its number), a cache write.
Ev(kind, n) == [ev |-> kind, n |-> n]

UrlChoices == {"none", "ok", "invalid", "unreachable"}

OutcomeScripts == [1..(MAX_LLM_RETRIES + 1) -> {"ok", "ValueError", "OtherError"}]

\* The cache before the call: empty, or holding a payload under the call's key.
EmptyCache == [k \in CacheKeys |-> NoPayload]

CacheHolding(a) == [EmptyCache EXCEPT ![KeyOfArgs[a]] = ResultOf(a, RunElapsedMs)]

EquivInit ==
    /\ xArgs \in JobArgChoices
    /\ xTask \in BOOLEAN
    /\ xUrl \in UrlChoices
    /\ xEnabled \in BOOLEAN
    /\ xGetFails \in BOOLEAN
    /\ xPutFails \in BOOLEAN
    /\ xScript \in OutcomeScripts
    /\ syCache \in {EmptyCache, CacheHolding(xArgs)}
    /\ asCache = syCache
    /\ syPc = "preparing" /\ asPc = "preparing"
    /\ syTrace = <<>> /\ asTrace = <<>>
    /\ syTries = 0 /\ asTries = 0
    /\ syRes = NoPayload /\ asRes = NoPayload
    /\ syErr = "none" /\ asErr = "none"

\* The state of these variables in the other specifications.
EquivIdle ==
    /\ xArgs = <<>> /\ xTask = FALSE /\ xUrl = "" /\ xEnabled = FALSE
    /\ xGetFails = FALSE /\ xPutFails = FALSE /\ xScript = <<>>
    /\ syPc = "" /\ syTrace = <<>> /\ syTries = 0 /\ syRes = <<>>
    /\ syErr = "" /\ syCache = <<>>
    /\ asPc = "" /\ asTrace = <<>> /\ asTries = 0 /\ asRes = <<>>
    /\ asErr = "" /\ asCache = <<>>

\* update_state(PROGRESS, percent) when task_self is given.
Reported(trace, pct) == IF xTask THEN Append(trace, Ev("progress", pct)) ELSE trace

\* A blocking retry wrapper that stops one attempt early.
RetriesLxSyncStopsEarly(outcome, made) ==
    outcome = "ValueError" /\ made < MAX_LLM_RETRIES

\* The tenacity decorator of _run_lx_extract_with_retry, lines 156-161.
RetriesLxSync(outcome, made) ==
    outcome = "ValueError" /\ made < MAX_LLM_RETRIES + 1

\* Lines 233-241: progress "preparing", 5%.
RunPreparing ==
    /\ syPc = "preparing"
    /\ syPc' = "input"
    /\ syTrace' = Reported(syTrace, 5)
    /\ UNCHANGED <<syTries, syRes, syErr, syCache, asyncRunVars, equivInputs, notEquivVars>>

\* Lines 243-255: document_url is validated and downloaded, either of
\* which may raise; without one the raw text is the input.
RunResolveInput ==
    /\ syPc = "input"
    /\ syTrace' = CASE xUrl = "none" -> syTrace
                   [] xUrl = "invalid" -> Append(syTrace, Ev("validate_url", 0))
                   [] OTHER -> syTrace \o <<Ev("validate_url", 0), Ev("download", 0)>>
    /\ syPc' = IF xUrl \in {"invalid", "unreachable"} THEN "raised" ELSE "cache_get"
    /\ syErr' = CASE xUrl = "invalid" -> "InvalidUrl"
                 [] xUrl = "unreachable" -> "DownloadError"
                 [] OTHER -> syErr
    /\ UNCHANGED <<syTries, syRes, syCache, asyncRunVars, equivInputs, notEquivVars>>

\* Lines 269-299: with the cache enabled, the key is built and looked up; a hit
\* is counted, patched and returned, a miss (or a backend error) counted.
RunCacheLookup ==
    /\ syPc = "cache_get"
    /\ IF ~xEnabled
       THEN syPc' = "extracting" /\ UNCHANGED <<syTrace, syRes>>
       ELSE LET cached == IF xGetFails THEN NoPayload ELSE syCache[KeyOfArgs[xArgs]]
            IN  IF cached # NoPayload
                THEN /\ syTrace' = syTrace \o <<Ev("cache_get", 0), Ev("cache_hit", 0)>>
                     /\ syRes' = PatchCached(cached, HitElapsedMs)
                     /\ syPc' = "returned"
                ELSE /\ syTrace' = syTrace \o <<Ev("cache_get", 0), Ev("cache_miss", 0)>>
                     /\ syPc' = "extracting"
                     /\ UNCHANGED syRes
    /\ UNCHANGED <<syTries, syErr, syCache, asyncRunVars, equivInputs, notEquivVars>>

\* Lines 302-310: progress "extracting", 10%.
RunExtracting ==
    /\ syPc = "extracting"
    /\ syPc' = "invoke"
    /\ syTrace' = Reported(syTrace, 10)
    /\ UNCHANGED <<syTries, syRes, syErr, syCache, asyncRunVars, equivInputs, notEquivVars>>

\* Lines 162-192 and 399-403: one invocation of lx.extract under the retry wrapper.
RunInvoke ==
    /\ syPc = "invoke"
    /\ syTries' = syTries + 1
    /\ syTrace' = Append(syTrace, Ev("invoke", syTries + 1))
    /\ IF xScript[syTries + 1] = "ok"
       THEN syPc' = "post" /\ UNCHANGED syErr
       ELSE IF RetriesLxSync(xScript[syTries + 1], syTries + 1)
       THEN UNCHANGED <<syPc, syErr>>
       ELSE syPc' = "raised" /\ syErr' = xScript[syTries + 1]
    /\ UNCHANGED <<syRes, syCache, asyncRunVars, equivInputs, notEquivVars>>

\* Lines 409-417: progress "post_processing", 90%.
RunPostProcessing ==
    /\ syPc = "post"
    /\ syPc' = "cache_put"
    /\ syTrace' = Reported(syTrace, 90)
    /\ UNCHANGED <<syTries, syRes, syErr, syCache, asyncRunVars, equivInputs, notEquivVars>>

\* Lines 419-447: the result dict is built, put in the cache when there is a
\* key (a backend error leaves the cache as it was), and returned.
RunReturn ==
    /\ syPc = "cache_put"
    /\ syPc' = "returned"
    /\ syRes' = ResultOf(xArgs, RunElapsedMs)
    /\ syTrace' = IF xEnabled THEN Append(syTrace, Ev("cache_put", 0)) ELSE syTrace
    /\ syCache' = IF xEnabled /\ ~xPutFails
                   THEN [syCache EXCEPT ![KeyOfArgs[xArgs]] = ResultOf(xArgs, RunElapsedMs)]
                   ELSE syCache
    /\ UNCHANGED <<syTries, syErr, asyncRunVars, equivInputs, notEquivVars>>

\* Lines 524-532: progress "preparing", 5%.
AsyncRunPreparing ==
    /\ asPc = "preparing"
    /\ asPc' = "input"
    /\ asTrace' = Reported(asTrace, 5)
    /\ UNCHANGED <<asTries, asRes, asErr, asCache, syncRunVars, equivInputs, notEquivVars>>

\* Lines 534-546: document_url is validated and downloaded (in a thread), either of
\* which may raise; without one the raw text is the input.
AsyncRunResolveInput ==
    /\ asPc = "input"
    /\ asTrace' = CASE xUrl = "none" -> asTrace
                   [] xUrl = "invalid" -> Append(asTrace, Ev("validate_url", 0))
                   [] OTHER -> asTrace \o <<Ev("validate_url", 0), Ev("download", 0)>>
    /\ asPc' = IF xUrl \in {"invalid", "unreachable"} THEN "raised" ELSE "cache_get"
    /\ asErr' = CASE xUrl = "invalid" -> "InvalidUrl"
                 [] xUrl = "unreachable" -> "DownloadError"
                 [] OTHER -> asErr
    /\ UNCHANGED <<asTries, asRes, asCache, syncRunVars, equivInputs, notEquivVars>>

\* Lines 558-588: with the cache enabled, the key is built and looked up; a hit
\* is counted, patched and returned, a miss (or a backend error) counted.
AsyncRunCacheLookup ==
    /\ asPc = "cache_get"
    /\ IF ~xEnabled
       THEN asPc' = "extracting" /\ UNCHANGED <<asTrace, asRes>>
       ELSE LET cached == IF xGetFails THEN NoPayload ELSE asCache[KeyOfArgs[xArgs]]
            IN  IF cached # NoPayload
                THEN /\ asTrace' = asTrace \o <<Ev("cache_get", 0), Ev("cache_hit", 0)>>
                     /\ asRes' = PatchCached(cached, HitElapsedMs)
                     /\ asPc' = "returned"
                ELSE /\ asTrace' = asTrace \o <<Ev("cache_get", 0), Ev("cache_miss", 0)>>
                     /\ asPc' = "extracting"
                     /\ UNCHANGED asRes
    /\ UNCHANGED <<asTries, asErr, asCache, syncRunVars, equivInputs, notEquivVars>>

\* Lines 591-599: progress "extracting", 10%.
AsyncRunExtracting ==
    /\ asPc = "extracting"
    /\ asPc' = "invoke"
    /\ asTrace' = Reported(asTrace, 10)
    /\ UNCHANGED <<asTries, asRes, asErr, asCache, syncRunVars, equivInputs, notEquivVars>>

\* Lines 459-480 and 681-685: one invocation of lx.async_extract under the retry wrapper.
AsyncRunInvoke ==
    /\ asPc = "invoke"
    /\ asTries' = asTries + 1
    /\ asTrace' = Append(asTrace, Ev("invoke", asTries + 1))
    /\ IF xScript[asTries + 1] = "ok"
       THEN asPc' = "post" /\ UNCHANGED asErr
       ELSE IF RetriesLx(xScript[asTries + 1], asTries + 1)
       THEN UNCHANGED <<asPc, asErr>>
       ELSE asPc' = "raised" /\ asErr' = xScript[asTries + 1]
    /\ UNCHANGED <<asRes, asCache, syncRunVars, equivInputs, notEquivVars>>

\* Lines 691-699: progress "post_processing", 90%.
AsyncRunPostProcessing ==
    /\ asPc = "post"
    /\ asPc' = "cache_put"
    /\ asTrace' = Reported(asTrace, 90)
    /\ UNCHANGED <<asTries, asRes, asErr, asCache, syncRunVars, equivInputs, notEquivVars>>

\* Lines 701-729: the result dict is built, put in the cache when there is a
\* key (a backend error leaves the cache as it was), and returned.
AsyncRunReturn ==
    /\ asPc = "cache_put"
    /\ asPc' = "returned"
    /\ asRes' = ResultOf(xArgs, RunElapsedMs)
    /\ asTrace' = IF xEnabled THEN Append(asTrace, Ev("cache_put", 0)) ELSE asTrace
    /\ asCache' = IF xEnabled /\ ~xPutFails
                   THEN [asCache EXCEPT ![KeyOfArgs[xArgs]] = ResultOf(xArgs, RunElapsedMs)]
                   ELSE asCache
    /\ UNCHANGED <<asTries, asErr, syncRunVars, equivInputs, notEquivVars>>

RunNext ==
    \/ RunPreparing \/ RunResolveInput \/ RunCacheLookup \/ RunExtracting
    \/ RunInvoke \/ RunPostProcessing \/ RunReturn

AsyncRunNext ==
    \/ AsyncRunPreparing \/ AsyncRunResolveInput \/ AsyncRunCacheLookup
    \/ AsyncRunExtracting \/ AsyncRunInvoke \/ AsyncRunPostProcessing
    \/ AsyncRunReturn

EquivNext == RunNext \/ AsyncRunNext

(***************************************************************************)
(* fire_webhook, as extract_document calls it                              *)
(***************************************************************************)
\* hmac.new(secret.encode(), message, hashlib.sha256).hexdigest(): one digest
\* "character" determined by the key and the message (HMAC-SHA256 idealised
\* as injective).
HmacSha256Hex(secret, message) == << <<-2>> \o Flat(secret) \o <<-3>> \o Flat(message) >>

\* security.py lines 232-240: the signature of "{timestamp}." + payload_bytes.
ComputeWebhookSignature(payload_bytes, secret, timestamp) ==
    HmacSha256Hex(secret, ItoA(timestamp) \o Str(<<46>>) \o payload_bytes)

\* json.dumps of a payload {"task_id": n, "status": s}.
JsonDumps(payload) ==
    Str(<<123, 34, 116, 97, 115, 107, 95, 105, 100, 34, 58, 32>>) \o ItoA(payload.task_id)
        \o Str(<<44, 32, 34, 115, 116, 97, 116, 117, 115, 34, 58, 32, 34>>) \o payload.status \o Str(<<34, 125>>)

\* {**a, **b}: the entries of b replace those of a with the same key.
MergeDicts(a, b) ==
    [k \in DOMAIN a \cup DOMAIN b |-> IF k \in DOMAIN b THEN b[k] ELSE a[k]]

ApplicationJson == Str(<<97, 112, 112, 108, 105, 99, 97, 116, 105, 111, 110, 47, 106, 115, 111, 110>>)

StatusCompleted == Str(<<99, 111, 109, 112, 108, 101, 116, 101, 100>>)

\* WEBHOOK_SECRET: not configured, or one of two secrets.
SecretChoices == {<<>>, Str(<<115>>), Str(<<116>>)}

PayloadChoices == {[task_id |-> n, status |-> StatusCompleted] : n \in 1..2}

\* callback_headers: none, a bearer token, or one of the notifier's headers.
ExtraHeaderChoices ==
    {<<>>,
     [k \in {"Authorization"} |-> Str(<<116>>)],
     [k \in {"Content-Type"} |-> Str(<<120>>)],
     [k \in {"X-Webhook-Signature"} |-> Str(<<120>>)],
     [k \in {"X-Webhook-Timestamp"} |-> Str(<<48>>)]}

TimestampChoices == {1, 2}

NoRequest == [headers |-> <<>>, content |-> <<>>]

HookInit ==
    /\ wCallback \in BOOLEAN
    /\ wUrlOk \in BOOLEAN
    /\ wSecret \in SecretChoices
    /\ wPayload \in PayloadChoices
    /\ wExtra \in ExtraHeaderChoices
    /\ wTs \in TimestampChoices
    /\ wTransport \in {"2xx", "non2xx", "error"}
    /\ wStoreFails \in BOOLEAN
    /\ wPc = "store"
    /\ wStored = FALSE
    /\ wHeaders = <<>>
    /\ wBody = <<>>
    /\ wSent = NoRequest
    /\ wLog = {}
    /\ wReturned = FALSE

\* The state of these variables in the other specifications.
HookIdle ==
    /\ wCallback = FALSE /\ wUrlOk = FALSE /\ wSecret = <<>> /\ wPayload = <<>>
    /\ wExtra = <<>> /\ wTs = 0 /\ wTransport = "" /\ wStoreFails = FALSE
    /\ wPc = "" /\ wStored = FALSE /\ wHeaders = <<>> /\ wBody = <<>>
    /\ wSent = NoRequest /\ wLog = {} /\ wReturned = FALSE

\* extract_task.py lines 105-111: the result is stored (a Redis error is
\* swallowed); with a callback_url fire_webhook is called.
HookStoreResult ==
    /\ wPc = "store"
    /\ wStored' = ~wStoreFails
    /\ wPc' = IF wCallback THEN "validate" ELSE "finish"
    /\ UNCHANGED <<hookInputs, wHeaders, wBody, wSent, wLog, wReturned, notHookVars>>

\* webhook.py lines 46-54: a URL that validate_url refuses is logged and
\* fire_webhook returns.
HookValidate ==
    /\ wPc = "validate"
    /\ IF wUrlOk THEN wPc' = "sign" /\ UNCHANGED wLog
       ELSE wPc' = "finish" /\ wLog' = wLog \cup {"blocked"}
    /\ UNCHANGED <<hookInputs, wStored, wHeaders, wBody, wSent, wReturned, notHookVars>>

\* webhook.py lines 56-67: the body, and with a secret the two signature
\* headers.
HookSign ==
    /\ wPc = "sign"
    /\ wPc' = "post"
    /\ wBody' = JsonDumps(wPayload)
    /\ wHeaders' = IF wSecret # <<>>
                   THEN [k \in {"X-Webhook-Signature", "X-Webhook-Timestamp"} |->
                           IF k = "X-Webhook-Signature"
                           THEN ComputeWebhookSignature(JsonDumps(wPayload), wSecret, wTs)
                           ELSE ItoA(wTs)]
                   ELSE <<>>
    /\ UNCHANGED <<hookInputs, wStored, wSent, wLog, wReturned, notHookVars>>

\* A POST whose transport error or error status leaves fire_webhook.
HookPostRaises ==
    /\ wPc = "post"
    /\ wSent' = [headers |-> MergeDicts(MergeDicts([k \in {"Content-Type"} |->
                                                      ApplicationJson], wHeaders),
                                        wExtra),
                 content |-> wBody]
    /\ IF wTransport = "2xx"
       THEN wPc' = "finish" /\ wLog' = wLog \cup {"delivered"}
       ELSE wPc' = "except" /\ UNCHANGED wLog
    /\ UNCHANGED <<hookInputs, wStored, wHeaders, wBody, wReturned, notHookVars>>

\* webhook.py lines 69-91: the POST; a transport error and the error
\* raise_for_status raises for a status that is not 2xx are caught and logged.
HookPost ==
    /\ wPc = "post"
    /\ wSent' = [headers |-> MergeDicts(MergeDicts([k \in {"Content-Type"} |->
                                                      ApplicationJson], wHeaders),
                                        wExtra),
                 content |-> wBody]
    /\ wPc' = "finish"
    /\ wLog' = wLog \cup {IF wTransport = "2xx" THEN "delivered" ELSE "failed"}
    /\ UNCHANGED <<hookInputs, wStored, wHeaders, wBody, wReturned, notHookVars>>

\* extract_task.py lines 118-122: the success metric, and the result returned.
HookTaskReturn ==
    /\ wPc = "finish"
    /\ wPc' = "succeeded"
    /\ wReturned' = TRUE
    /\ UNCHANGED <<hookInputs, wStored, wHeaders, wBody, wSent, wLog, notHookVars>>

HookNext ==
    \/ HookStoreResult
    \/ HookValidate
    \/ HookSign
    \/ HookPost
    \/ HookTaskReturn

\* A document that may carry a callback_url of its own ("" when it has none).
DocCallbackChoices ==
    {[document_url |-> "", callback_url |-> c] : c \in {"", "cb"}}

\* A batch request whose documents may carry a callback_url.
BatchHooksInit ==
    /\ bDocs \in UNION {[1..n -> DocCallbackChoices] : n \in 1..MaxDocs}
    /\ bCallback \in BOOLEAN
    /\ bpc = "start"
    /\ bResp = NoResponse
    /\ chIds = <<>> /\ chDoc = <<>> /\ chState = <<>>
    /\ fId = 0 /\ fpc = "none" /\ fRetries = 0 /\ fCountdown = 0
    /\ fRuns = 0 /\ fChecks = 0 /\ fProgress = -1
    /\ fAgg = NoAggregate /\ bStore = NoAggregate
    /\ bStoreCalls = 0 /\ bHookCalls = 0
    /\ chHooks = [i \in 1..Len(bDocs) |-> 0]

\* The state of this variable in the other specifications.
ChildIdle == chHooks = <<>>

\* batch.py lines 73-90 and extract_task.py lines 105-122: the child was
\* enqueued with its document's callback_url; when its extraction succeeds it
\* calls fire_webhook if that callback_url is set, and SUCCESS is stored.
ChildSucceeds(i) ==
    /\ i \in 1..Len(chState)
    /\ chState[i] = "PENDING"
    /\ chState' = [chState EXCEPT ![i] = "SUCCESS"]
    /\ chHooks' = [chHooks EXCEPT ![i] = IF chDoc[i].callback_url # "" THEN @ + 1 ELSE @]
    /\ UNCHANGED <<bDocs, bCallback, bpc, bResp, chIds, chDoc, fId, fpc, fRetries,
                   fCountdown, fRuns, fChecks, fProgress, fAgg, bStore,
                   bStoreCalls, bHookCalls, notBatchChildVars>>

\* extract_task.py lines 128-143: the child's attempts all raised; FAILURE is
\* stored and no webhook is sent.
ChildFails(i) ==
    /\ i \in 1..Len(chState)
    /\ chState[i] = "PENDING"
    /\ chState' = [chState EXCEPT ![i] = "FAILURE"]
    /\ UNCHANGED <<bDocs, bCallback, bpc, bResp, chIds, chDoc, fId, fpc, fRetries,
                   fCountdown, fRuns, fChecks, fProgress, fAgg, bStore,
                   bStoreCalls, bHookCalls, notBatchVars>>

BatchHooksNext ==
    \/ BatchDispatch
    \/ BatchEnqueueFinalize
    \/ BatchRespond
    \/ \E i \in 1..MaxDocs : ChildSucceeds(i)
    \/ \E i \in 1..MaxDocs : ChildFails(i)
    \/ FinalizeNext

(***************************************************************************)
(* extraction_cache.py: entries and their TTL                              *)
(***************************************************************************)
\* The clock runs to MaxTime; at most MaxGets gets are made.
MaxTime == 4
MaxGets == 2
\* EXTRACTION_CACHE_TTL (86400 in the code), in ticks of the clock.
CacheTtl == 3

TtlKeys == {"k1"}
\* The ttl argument of put: 0 stands for None (and for 0, which is falsy too).
TtlChoices == {0, 1, 2}

NoEntry == [raw |-> <<>>, expires |-> 0]
NoPut == [value |-> [task_id |-> 0, status |-> <<>>], at |-> 0, ttl |-> 0]
Miss == [task_id |-> 0, status |-> <<>>]

\* json.loads of what json.dumps wrote for one of the payloads.
JsonLoads(raw) == CHOOSE v \in PayloadChoices : JsonDumps(v) = raw

TtlInit ==
    /\ tEnabled \in BOOLEAN
    /\ tNow = 0
    /\ tRedis = [k \in TtlKeys |-> NoEntry]
    /\ tLastPut = [k \in TtlKeys |-> NoPut]
    /\ tGets = <<>>

\* The state of these variables in the other specifications.
TtlIdle ==
    /\ tEnabled = FALSE /\ tNow = 0 /\ tRedis = <<>> /\ tLastPut = <<>>
    /\ tGets = <<>>

\* A second of the clock passes.
ClockTick ==
    /\ tNow < MaxTime
    /\ tNow' = tNow + 1
    /\ UNCHANGED <<tEnabled, tRedis, tLastPut, tGets, notTtlVars>>

\* Lines 408-430 and 182-208: put(key, value, ttl) calls
\* backend.set(key, value, ttl or self._ttl), which runs
\* setex(redis_key, ttl, json.dumps(value)); an error of Redis is logged and
\* nothing is written.
ExtractionCachePut(key, value, ttl, fails) ==
    /\ LET t == IF ttl # 0 THEN ttl ELSE CacheTtl
       IN  IF tEnabled /\ ~fails
           THEN /\ tRedis' = [tRedis EXCEPT ![key] =
                                 [raw |-> JsonDumps(value), expires |-> tNow + t]]
                /\ tLastPut' = [tLastPut EXCEPT ![key] =
                                   [value |-> value, at |-> tNow, ttl |-> t]]
           ELSE UNCHANGED <<tRedis, tLastPut>>
    /\ UNCHANGED <<tEnabled, tNow, tGets, notTtlVars>>

\* What Redis answers to GET: the value of a key that has not expired.
RedisGet(key) ==
    IF tRedis[key].expires > tNow THEN tRedis[key].raw ELSE <<>>

\* A Redis that keeps answering with an expired value.
BackendGetStale(key, fails) ==
    IF fails \/ tRedis[key].expires = 0 THEN Miss ELSE JsonLoads(tRedis[key].raw)

\* Lines 154-180: _RedisBackend.get; None when the key is absent and when
\* Redis or json.loads raises.
BackendGet(key, fails) ==
    IF fails \/ RedisGet(key) = <<>> THEN Miss ELSE JsonLoads(RedisGet(key))

\* Lines 374-406: get(key).
ExtractionCacheGet(key, fails) ==
    /\ Len(tGets) < MaxGets
    /\ tGets' = Append(tGets,
                       [key |-> key, failed |-> fails,
                        put |-> tLastPut[key].value,
                        left |-> tLastPut[key].at + tLastPut[key].ttl - tNow,
                        result |-> IF tEnabled THEN BackendGet(key, fails) ELSE Miss])
    /\ UNCHANGED <<tEnabled, tNow, tRedis, tLastPut, notTtlVars>>

TtlNext ==
    \/ ClockTick
    \/ \E key \in TtlKeys, value \in PayloadChoices, ttl \in TtlChoices,
          fails \in BOOLEAN : ExtractionCachePut(key, value, ttl, fails)
    \/ \E key \in TtlKeys, fails \in BOOLEAN : ExtractionCacheGet(key, fails)

(***************************************************************************)
(* DELETE /tasks/{id}: revoke_task                                         *)
(***************************************************************************)
\* DELETE calls made, at most.
MaxRevokes == 2

\* An id no task was enqueued under.
UnknownId == 0

RevokeIds == Jobs \cup {UnknownId}

NoRevokeResponse == [task_id |-> -1, status |-> "none", terminate |-> FALSE]

RevokeInit ==
    /\ revSignal = [id \in RevokeIds |-> <<>>]
    /\ revResp = NoRevokeResponse

\* The state of these variables in the other specifications.
RevokeIdle == revSignal = <<>> /\ revResp = NoRevokeResponse

\* Where the task stood when a signal was sent: still queued, running before
\* or after its result was built (the model invocation is over), or finished.
Stage(id) ==
    CASE id \notin Jobs -> "unknown"
      [] jpc[id] = "queued" -> "queued"
      [] jpc[id] \in Terminal \cup {"revoked"} -> "finished"
      [] jres[id] # NoPayload -> "invoked"
      [] OTHER -> "running"

RECURSIVE SignalsSent(_)
\* The signals sent so far, over the ids of set ids.
SignalsSent(ids) ==
    IF ids = {} THEN 0
    ELSE LET id == CHOOSE x \in ids : TRUE
         IN  Len(revSignal[id]) + SignalsSent(ids \ {id})

\* A handler that records the revocation itself.
RevokeTaskMarksRevoked(id, terminate) ==
    /\ SignalsSent(RevokeIds) < MaxRevokes
    /\ id \in Jobs
    /\ revSignal' = [revSignal EXCEPT ![id] =
                        Append(@, [terminate |-> terminate, at |-> Stage(id)])]
    /\ revResp' = [task_id |-> id, status |-> "revoked", terminate |-> terminate]
    /\ celState' = [celState EXCEPT ![id] = "REVOKED"]
    /\ UNCHANGED <<jArgs, jpc, retries, attempts, llmTries, jres, jerr, jfault,
                   celPct, celErr, celRes, rstore, cache, hooks, metric, termPolled,
                   lastPoll, notJobRevokeVars>>

\* tasks.py lines 98-112: control.revoke(task_id, terminate=terminate)
\* broadcasts the signal; the response says "revoked".
RevokeTask(id, terminate) ==
    /\ SignalsSent(RevokeIds) < MaxRevokes
    /\ revSignal' = [revSignal EXCEPT ![id] =
                        Append(@, [terminate |-> terminate, at |-> Stage(id)])]
    /\ revResp' = [task_id |-> id, status |-> "revoked", terminate |-> terminate]
    /\ UNCHANGED notRevokeVars

\* A worker that received the signal discards the task when it takes it from
\* the queue; Celery stores REVOKED.
WorkerDiscardsRevoked(j) ==
    /\ jpc[j] = "queued"
    /\ revSignal[j] # <<>>
    /\ Cardinality(Running) < NumWorkers
    /\ jpc' = [jpc EXCEPT ![j] = "revoked"]
    /\ celState' = [celState EXCEPT ![j] = "REVOKED"]
    /\ celPct' = [celPct EXCEPT ![j] = 0]
    /\ UNCHANGED <<jArgs, retries, attempts, llmTries, jres, jerr, jfault, celErr,
                   celRes, rstore, cache, hooks, metric, termPolled, lastPoll,
                   notJobVars>>

\* terminate=True: the worker process running the task is sent SIGTERM, if
\* the signal reaches it while the task runs; Celery stores REVOKED.
WorkerTerminates(j) ==
    /\ j \in Running
    /\ \E i \in 1..Len(revSignal[j]) : revSignal[j][i].terminate
    /\ jpc' = [jpc EXCEPT ![j] = "revoked"]
    /\ celState' = [celState EXCEPT ![j] = "REVOKED"]
    /\ celPct' = [celPct EXCEPT ![j] = 0]
    /\ EndAttempt(j)
    /\ UNCHANGED <<jArgs, retries, attempts, celErr, celRes, rstore, cache, hooks,
                   metric, termPolled, lastPoll, notJobVars>>

\* The first task's worker, its polls and the expiry of what is stored for it.
FirstJobNext ==
    \/ JobStep(1)
    \/ BackendExpire(1)
    \/ ResultExpire(1)
    \/ \E fails \in BOOLEAN : GetTaskStatus(1, fails)

RevokeNext ==
    \/ FirstJobNext
    \/ \E id \in RevokeIds, terminate \in BOOLEAN : RevokeTask(id, terminate)
    \/ \E j \in Jobs : WorkerDiscardsRevoked(j)
    \/ \E j \in Jobs : WorkerTerminates(j)

(***************************************************************************)
(* provider_manager.py: the cache of model instances                       *)
(***************************************************************************)
\* Threads calling get_or_create_model, and calls made, at most.
NumCallers == 2
MaxModelCalls == 3

Callers == 1..NumCallers

Gpt4o == Str(<<103, 112, 116, 45, 52, 111>>)
Gemini == Str(<<103, 101, 109, 105, 110, 105>>)
Gpt == Str(<<103, 112, 116>>)
Openai == Str(<<111, 112, 101, 110, 97, 105>>)
Colon == Str(<<58>>)

\* settings.OPENAI_API_KEY and settings.LANGEXTRACT_API_KEY.
OpenaiApiKey == Str(<<107, 49>>)
LangextractApiKey == Str(<<107, 50>>)

\* sub in s, for two str.
Contains(s, sub) ==
    \E i \in 0..(Len(s) - Len(sub)) : SubSeq(s, i + 1, i + Len(sub)) = sub

\* providers.py lines 30-40 (the ids used here are lower-case).
IsOpenaiModel(provider) == Contains(provider, Gpt) \/ Contains(provider, Openai)

\* providers.py lines 14-27.
ResolveApiKey(provider) ==
    IF IsOpenaiModel(provider) THEN OpenaiApiKey ELSE LangextractApiKey

\* str(x) for x in (None, True, False).
PyStrFlag(x) ==
    CASE x = "None" -> Str(<<78, 111, 110, 101>>)
      [] x = "True" -> Str(<<84, 114, 117, 101>>)
      [] x = "False" -> Str(<<70, 97, 108, 115, 101>>)

\* d[:32] of a hex digest d: its first half, determined by the digest.
First32(d) == << <<-4>> \o d[1] >>

\* provider_manager.py lines 116-132: sha256 of
\* f"{model_id}:{api_key or ''}:{fence_output}:{use_schema_constraints}".
ModelCacheKey(model_id, api_key, fence_output, use_schema_constraints) ==
    First32(Sha256Hex(model_id \o Colon \o api_key \o Colon
                      \o PyStrFlag(fence_output) \o Colon
                      \o PyStrFlag(use_schema_constraints)))

\* The key of a call's arguments (lines 156-161).
KeyOfCall(a) ==
    ModelCacheKey(a.model_id, a.api_key, a.fence_output, a.use_schema_constraints)

\* extractor.py lines 132-150: the arguments _build_model passes for a
\* provider, the examples and a response_format (0 is None).
BuildModelArgs(provider, examples, response_format) ==
    [model_id |-> provider,
     api_key |-> ResolveApiKey(provider),
     fence_output |-> IF response_format # 0 THEN "False"
                      ELSE IF IsOpenaiModel(provider) THEN "True" ELSE "None",
     use_schema_constraints |-> IF IsOpenaiModel(provider) THEN "False" ELSE "True",
     examples |-> examples,
     response_format |-> response_format]

ProviderChoices == {Gpt4o, Gemini}
ExamplesChoices == {1, 2}
ResponseFormatChoices == {0, 1, 2}

NoArgs == BuildModelArgs(<<>>, 0, 0)

\* The key table, computed once.
ModelKeyTable ==
    [a \in {BuildModelArgs(p, e, r) : p \in ProviderChoices, e \in ExamplesChoices,
                                      r \in ResponseFormatChoices}
        |-> KeyOfCall(a)]

PmInit ==
    /\ pmModels = <<>>
    /\ pmPc = [t \in Callers |-> "idle"]
    /\ pmArgs = [t \in Callers |-> NoArgs]
    /\ pmModel = [t \in Callers |-> 0]
    /\ pmCreated = <<>>
    /\ pmGot = {}

\* The state of these variables in the other specifications.
PmIdle ==
    /\ pmModels = <<>>
    /\ pmPc = <<>>
    /\ pmArgs = <<>>
    /\ pmModel = <<>>
    /\ pmCreated = <<>>
    /\ pmGot = {}

CallsStarted == Cardinality({t \in Callers : pmPc[t] # "idle"}) + Cardinality(pmGot)

\* extractor.py lines 142-149: _build_model calls get_or_create_model; the
\* key is computed (lines 156-161).
BuildModel(t, provider, examples, response_format) ==
    /\ pmPc[t] = "idle"
    /\ CallsStarted < MaxModelCalls
    /\ pmArgs' = [pmArgs EXCEPT ![t] = BuildModelArgs(provider, examples, response_format)]
    /\ pmPc' = [pmPc EXCEPT ![t] = "lookup"]
    /\ UNCHANGED <<pmModels, pmModel, pmCreated, pmGot, notPmVars>>

\* lines 163-166: under the lock, a cached instance is returned.
ModelLookup(t) ==
    /\ pmPc[t] = "lookup"
    /\ LET ck == ModelKeyTable[pmArgs[t]]
       IN  IF ck \in DOMAIN pmModels
           THEN /\ pmGot' = pmGot \cup {[caller |-> t, args |-> pmArgs[t],
                                         model |-> pmModels[ck]]}
                /\ pmPc' = [pmPc EXCEPT ![t] = "idle"]
           ELSE /\ pmPc' = [pmPc EXCEPT ![t] = "create"]
                /\ UNCHANGED pmGot
    /\ UNCHANGED <<pmModels, pmArgs, pmModel, pmCreated, notPmVars>>

\* lines 168-183: factory.create_model builds a new instance from the
\* arguments, outside the lock.
CreateModel(t) ==
    /\ pmPc[t] = "create"
    /\ pmCreated' = Append(pmCreated, pmArgs[t])
    /\ pmModel' = [pmModel EXCEPT ![t] = Len(pmCreated) + 1]
    /\ pmPc' = [pmPc EXCEPT ![t] = "insert"]
    /\ UNCHANGED <<pmModels, pmArgs, pmGot, notPmVars>>

\* lines 185-193: under the lock, setdefault keeps an entry another thread
\* inserted meanwhile; the instance under the key is returned.
ModelInsert(t) ==
    /\ pmPc[t] = "insert"
    /\ LET ck == ModelKeyTable[pmArgs[t]]
           models == [k \in DOMAIN pmModels \cup {ck} |->
                         IF k \in DOMAIN pmModels THEN pmModels[k] ELSE pmModel[t]]
       IN  /\ pmModels' = models
           /\ pmGot' = pmGot \cup {[caller |-> t, args |-> pmArgs[t],
                                    model |-> models[ck]]}
    /\ pmPc' = [pmPc EXCEPT ![t] = "idle"]
    /\ pmModel' = [pmModel EXCEPT ![t] = 0]
    /\ UNCHANGED <<pmArgs, pmCreated, notPmVars>>

PmNext ==
    \/ \E t \in Callers, p \in ProviderChoices, e \in ExamplesChoices,
          r \in ResponseFormatChoices : BuildModel(t, p, e, r)
    \/ \E t \in Callers : ModelLookup(t)
    \/ \E t \in Callers : CreateModel(t)
    \/ \E t \in Callers : ModelInsert(t)

(***************************************************************************)
(* The specifications                                                      *)
(***************************************************************************)
InitKey == KeyInit /\ SubmitInit /\ JobIdle /\ BatchIdle /\ ConsIdle /\ EquivIdle /\ HookIdle
    /\ RevokeIdle
    /\ PmIdle
    /\ ChildIdle
    /\ TtlIdle
    /\ ProgIdle

SpecKey == InitKey /\ [][KeyNext]_vars

InitSubmit == KeyIdle /\ SubmitInit /\ JobIdle /\ BatchIdle /\ ConsIdle /\ EquivIdle /\ HookIdle
    /\ RevokeIdle
    /\ PmIdle
    /\ ChildIdle
    /\ TtlIdle
    /\ ProgIdle

SpecSubmit == InitSubmit /\ [][SubmitNext]_vars

InitJob == KeyIdle /\ SubmitInit /\ JobInit /\ BatchIdle /\ ConsIdle /\ EquivIdle /\ HookIdle
    /\ RevokeIdle
    /\ PmIdle
    /\ ChildIdle
    /\ TtlIdle
    /\ ProgIdle

SpecJob == InitJob /\ [][JobNext]_vars

\* The workers keep running the tasks they hold.
FairSpecJob == SpecJob /\ WF_vars(WorkerNext)

InitBatch == KeyIdle /\ SubmitInit /\ JobIdle /\ BatchInit /\ ConsIdle /\ EquivIdle /\ HookIdle
    /\ RevokeIdle
    /\ PmIdle
    /\ ChildIdle
    /\ TtlIdle
    /\ ProgIdle

SpecBatch == InitBatch /\ [][BatchNext]_vars

InitConsensus == KeyIdle /\ SubmitInit /\ JobIdle /\ BatchIdle /\ ConsInit /\ EquivIdle /\ HookIdle
    /\ RevokeIdle
    /\ PmIdle
    /\ ChildIdle
    /\ TtlIdle
    /\ ProgIdle

SpecConsensus == InitConsensus /\ [][ConsNext]_vars

InitEquiv == KeyIdle /\ SubmitInit /\ JobIdle /\ BatchIdle /\ ConsIdle /\ EquivInit /\ HookIdle
    /\ RevokeIdle
    /\ PmIdle
    /\ ChildIdle
    /\ TtlIdle
    /\ ProgIdle

SpecEquiv == InitEquiv /\ [][EquivNext]_vars

\* One POST /extract and one POST /batch are being handled; the earlier
\* calls of POST /extract were rejected.
SubmitInitLast ==
    /\ reqPc = [r \in Reqs |-> IF r = 1 THEN "idle" ELSE "done"]
    /\ reqKey = [r \in Reqs |-> 0]
    /\ reqTask = [r \in Reqs |-> 0]
    /\ reqResp = [r \in Reqs |-> IF r = 1 THEN 0 ELSE -2]
    /\ reqSeen = [r \in Reqs |-> 0]
    /\ reqJob = [r \in Reqs |-> "none"]
    /\ reqRaced = [r \in Reqs |-> {}]
    /\ reqWrote = [r \in Reqs |-> FALSE]
    /\ idem = [k \in IdemKeys |-> NoRecord]
    /\ orig = [k \in IdemKeys |-> NoRecord]
    /\ nextTask = 1

InitValidate ==
    KeyIdle /\ SubmitInitLast /\ JobIdle /\ BatchInit /\ ConsIdle /\ EquivIdle /\ HookIdle
    /\ RevokeIdle
    /\ PmIdle
    /\ ChildIdle
    /\ TtlIdle
    /\ ProgIdle

ValidateNext == SubmitNext \/ BatchRouteNext

SpecValidate == InitValidate /\ [][ValidateNext]_vars

InitRevoke ==
    KeyIdle /\ SubmitInit /\ JobInit /\ BatchIdle /\ ConsIdle /\ EquivIdle /\ HookIdle
    /\ RevokeInit
    /\ PmIdle
    /\ ChildIdle
    /\ TtlIdle
    /\ ProgIdle

SpecRevoke == InitRevoke /\ [][RevokeNext]_vars

InitModels ==
    KeyIdle /\ SubmitInit /\ JobIdle /\ BatchIdle /\ ConsIdle /\ EquivIdle /\ HookIdle
    /\ RevokeIdle
    /\ PmInit
    /\ ChildIdle
    /\ TtlIdle
    /\ ProgIdle

SpecModels == InitModels /\ [][PmNext]_vars

InitBatchHooks ==
    KeyIdle /\ SubmitInit /\ JobIdle /\ ConsIdle /\ EquivIdle /\ HookIdle
    /\ RevokeIdle
    /\ PmIdle
    /\ BatchHooksInit
    /\ TtlIdle
    /\ ProgIdle

SpecBatchHooks == InitBatchHooks /\ [][BatchHooksNext]_vars

InitTtl ==
    KeyIdle /\ SubmitInit /\ JobIdle /\ BatchIdle /\ ConsIdle /\ EquivIdle /\ HookIdle
    /\ RevokeIdle
    /\ PmIdle
    /\ ChildIdle
    /\ TtlInit
    /\ ProgIdle

SpecTtl == InitTtl /\ [][TtlNext]_vars

InitPreimage ==
    PreimageInit /\ SubmitInit /\ JobIdle /\ BatchIdle /\ ConsIdle /\ EquivIdle
    /\ HookIdle
    /\ RevokeIdle
    /\ PmIdle
    /\ ChildIdle
    /\ TtlIdle
    /\ ProgIdle

SpecPreimage == InitPreimage /\ [][PreimageNext]_vars

SpecBatchOrder == InitBatch /\ [][BatchOrderNext]_vars

InitProgress ==
    KeyIdle /\ SubmitInit /\ RaceInit /\ BatchIdle /\ ConsIdle /\ EquivIdle /\ HookIdle
    /\ RevokeIdle
    /\ PmIdle
    /\ ChildIdle
    /\ TtlIdle
    /\ ProgInit

SpecProgress == InitProgress /\ [][ProgressNext]_vars

InitResubmit ==
    KeyIdle /\ ResubmitInit /\ BatchIdle /\ ConsIdle /\ EquivIdle /\ HookIdle
    /\ RevokeIdle
    /\ PmIdle
    /\ ChildIdle
    /\ TtlIdle
    /\ ProgIdle

SpecResubmit == InitResubmit /\ [][ResubmitNext]_vars

InitRace ==
    KeyIdle /\ SubmitInit /\ RaceInit /\ BatchIdle /\ ConsIdle /\ EquivIdle /\ HookIdle
    /\ RevokeIdle
    /\ PmIdle
    /\ ChildIdle
    /\ TtlIdle
    /\ ProgIdle

\* Each of the two workers keeps executing the task it took.
SpecRace == InitRace /\ [][RaceNext]_vars /\ \A j \in Jobs : WF_vars(RaceStep(j))

SpecMetric == InitRace /\ [][MetricNext]_vars

InitWebhook ==
    KeyIdle /\ SubmitInit /\ JobIdle /\ BatchIdle /\ ConsIdle /\ EquivIdle /\ HookInit
    /\ RevokeIdle
    /\ PmIdle
    /\ ChildIdle
    /\ TtlIdle
    /\ ProgIdle

SpecWebhook == InitWebhook /\ [][HookNext]_vars

\* The route handler runs on, and a worker runs finalize_batch when it is due.
FairSpecBatch ==
    /\ SpecBatch
    /\ WF_vars(BatchDispatch \/ BatchEnqueueFinalize \/ BatchRespond)
    /\ WF_vars(FinalizeNext)


\* The calls r that came after a call with the same key had completed and
\* recorded its task id, inside that record's TTL, and returned a response.
LaterCalls == {r \in Reqs : reqPc[r] = "done" /\ reqSeen[r] # 0 /\ reqResp[r] # -1}

\* C1 as stated: once a call with key K has completed and recorded its task
\* id, within that record's TTL every later call with K returns the
\* originally recorded id, enqueues no task and does not write the record.
C1_LaterCallReturnsOriginalId ==
    \A r \in LaterCalls :
        /\ reqResp[r] = reqSeen[r]
        /\ reqTask[r] = 0
        /\ ~reqWrote[r]

\* C2: two calls with the same key that both read before either wrote each
\* enqueue a task of their own, and the task id a caller receives is that of
\* its own task, so the two callers receive different ids.
C2_RaceEnqueuesTwoTasks ==
    \A r \in Reqs : \A q \in reqRaced[r] :
        reqPc[r] = "done" /\ reqPc[q] = "done" =>
            /\ reqTask[r] # 0 /\ reqTask[q] # 0 /\ reqTask[r] # reqTask[q]
            /\ reqResp[r] \in {reqTask[r], -1}
            /\ reqResp[q] \in {reqTask[q], -1}

\* Two raced calls have both returned, with different task ids.
C2_Witness ==
    \E r \in Reqs : \E q \in reqRaced[r] :
        /\ reqPc[r] = "done" /\ reqPc[q] = "done"
        /\ reqResp[r] > 0 /\ reqResp[q] > 0 /\ reqResp[r] # reqResp[q]

FieldOps == {"text", "prompt", "examples", "model", "temperature", "passes",
             "providers", "threshold"}

\* C6: build_cache_key called again on the same arguments, or on the same
\* arguments with the consensus provider list reordered, returns the same key.
C6_SameKeyOnRepeatAndReorder ==
    kOp \in {"again", "reorder"} => kKeys[1] = kKeys[2]

\* A call on a genuinely reordered two-provider list has been made.
C6_Witness ==
    /\ kOp = "reorder"
    /\ kB.providers # kA.providers
    /\ Len(kA.providers.v) = 2
    /\ kKeys[1] = kKeys[2]

\* C7 as stated: changing any single field changes the key.
C7_AnySingleChangeChangesKey ==
    kOp \in FieldOps => kKeys[1] # kKeys[2]

\* A changed text that is the digest build_cache_key substitutes for the other.
DigestOfOther(a, b) ==
    \/ Len(a) > TextHashThreshold /\ b = Sha256Hex(a)
    \/ Len(b) > TextHashThreshold /\ a = Sha256Hex(b)

\* C7 amended: changing one of text, prompt, examples, model id, temperature,
\* pass count or the consensus provider set changes the key, except that a
\* text over the threshold and the text equal to its digest share a key;
\* changing the consensus threshold changes the key when a non-empty
\* consensus provider list is given.
C7_SingleChangeChangesKey ==
    /\ kOp \in FieldOps \ {"text", "threshold"} => kKeys[1] # kKeys[2]
    /\ kOp = "text" /\ ~DigestOfOther(kA.text, kB.text) => kKeys[1] # kKeys[2]
    /\ kOp = "threshold" /\ kA.providers.some /\ Len(kA.providers.v) > 0
          => kKeys[1] # kKeys[2]

\* The temperature alone was changed and the keys differ.
C7_Witness ==
    /\ kOp = "temperature"
    /\ kA.temperature # kB.temperature
    /\ kKeys[1] # kKeys[2]

(***************************************************************************)
(* The extract_document retry envelope, the invocation retry wrapper,      *)
(* status polling, and the extraction cache                                *)
(***************************************************************************)
\* C3: a task runs at most 1 + max_retries = 4 attempts under its id; a
\* task that succeeded or failed stays so and starts no further attempt; a task
\* becomes Failed only out of its fourth attempt, with the exception of that
\* attempt recorded, and the fourth attempt's exception always ends it Failed;
\* and every task reaches Succeeded or Failed.
C3_AtMostFourAttemptsThenTerminal ==
    /\ [][\A j \in Jobs :
            /\ attempts'[j] <= MaxRetries + 1
            /\ jpc[j] \in Terminal => jpc'[j] = jpc[j] /\ attempts'[j] = attempts[j]
            /\ (jpc[j] # "failure" /\ jpc'[j] = "failure") =>
                  /\ attempts[j] = MaxRetries + 1
                  /\ jerr[j] # "none"
                  /\ celErr'[j] = jerr[j]
            /\ (jpc[j] = "except" /\ jpc'[j] # "except"
                    /\ attempts[j] = MaxRetries + 1) => jpc'[j] = "failure"
            /\ (jpc[j] # "success" /\ jpc'[j] = "success") => celState'[j] = "SUCCESS"
         ]_vars
    /\ \A j \in Jobs : <>(jpc[j] \in Terminal)

C3_Witness ==
    /\ \E j \in Jobs :
          jpc[j] = "failure" /\ attempts[j] = MaxRetries + 1 /\ celErr[j] = "ValueError"
    /\ \E j \in Jobs : jpc[j] = "success" /\ attempts[j] = 2

\* C4: within an attempt, an invocation that raised is followed by another
\* invocation exactly when it raised ValueError and fewer than
\* 1 + MAX_LLM_RETRIES = 3 invocations have been made; otherwise its exception
\* leaves the attempt; no attempt makes more than 3 invocations.
C4_InvocationRetriedOnlyOnValueError ==
    [][\A j \in Jobs :
         (jpc[j] = "invoke" /\ llmTries'[j] # llmTries[j]) =>
            /\ llmTries'[j] = llmTries[j] + 1
            /\ llmTries'[j] <= MAX_LLM_RETRIES + 1
            /\ jpc'[j] = "invoke" <=>
                  (jerr'[j] = "ValueError" /\ llmTries'[j] < MAX_LLM_RETRIES + 1)
            /\ (jerr'[j] # "none" /\ jpc'[j] # "invoke") => jpc'[j] = "except"
            /\ jerr'[j] = "none" => jpc'[j] = "post"
      ]_vars

C4_Witness ==
    \E j \in Jobs :
        jpc[j] = "except" /\ jerr[j] = "ValueError" /\ llmTries[j] = MAX_LLM_RETRIES + 1

\* C5 as stated: once a poll has reported a task SUCCESS or FAILURE, every
\* later poll reports that same state.
C5_TerminalPollNeverChanges ==
    \A j \in Jobs : termPolled[j] # "none" => lastPoll[j] = termPolled[j]

\* C5: once a poll has reported a task SUCCESS or FAILURE, every later poll
\* reports that same state or PENDING, never a running state nor the other
\* terminal state; PENDING is reported only once Celery's record of the task
\* has expired; and SUCCESS is reported only of a task that succeeded, FAILURE
\* only of one that failed.
C5_TerminalPollSameOrPending ==
    \A j \in Jobs :
        termPolled[j] # "none" =>
            /\ lastPoll[j] \in {termPolled[j], "PENDING"}
            /\ lastPoll[j] = "PENDING" => celState[j] = "PENDING"
            /\ termPolled[j] = "SUCCESS" <=> jpc[j] = "success"
            /\ termPolled[j] = "FAILURE" <=> jpc[j] = "failure"

C5_Witness ==
    \E j \in Jobs : termPolled[j] = "FAILURE" /\ lastPoll[j] = "PENDING"

\* C8 as stated: the result an attempt returns is the extraction of the
\* parameters its own task hands to the model invocation, never that of a task
\* with other parameters.
C8_NeverServedAnothersResult ==
    \A j \in Jobs :
        jpc[j] \in {"returned", "webhook", "finish"} =>
            jres[j].entities = ExtractKwargs(jArgs[j])

\* C9: the step that returns on a cache hit returns the stored payload with
\* processing_time_ms set to the elapsed time and cache_hit set to true and
\* every other field as stored, leaves the cache as it was, and makes no model
\* invocation; an attempt that returns a cache hit has made none.
C9_HitReturnsStoredPayloadPatched ==
    [][\A j \in Jobs :
         /\ (jpc[j] = "cache_get" /\ jpc'[j] = "returned") =>
               /\ cache[CacheKeyOf(j)] # NoPayload
               /\ jres'[j].status = cache[CacheKeyOf(j)].status
               /\ jres'[j].entities = cache[CacheKeyOf(j)].entities
               /\ jres'[j].provider = cache[CacheKeyOf(j)].provider
               /\ jres'[j].processing_time_ms = HitElapsedMs
               /\ jres'[j].cache_hit = TRUE
               /\ cache' = cache
               /\ llmTries'[j] = llmTries[j]
         /\ jres'[j].cache_hit => llmTries'[j] = 0
      ]_vars

C9_Witness ==
    \E j \in Jobs :
        /\ jpc[j] = "returned" /\ jres[j].cache_hit
        /\ jres[j].processing_time_ms = HitElapsedMs
        /\ cache[CacheKeyOf(j)].processing_time_ms = RunElapsedMs
        /\ ~cache[CacheKeyOf(j)].cache_hit

C11_StoresWrittenOnlyOnSuccess ==
    /\ [](\A j \in Jobs :
            rstore[j] # NoPayload =>
                jpc[j] \in {"webhook", "finish", "success"} /\ rstore[j].status = "completed")
    /\ [](\A k \in CacheKeys :
            cache[k] # NoPayload =>
                \E j \in Jobs :
                    /\ CacheKeyOf(j) = k
                    /\ jpc[j] \in {"returned", "webhook", "finish", "success"}
                    /\ cache[k] = ResultOf(jArgs[j], RunElapsedMs))
    /\ [][/\ \A j \in Jobs :
                /\ (rstore'[j] # rstore[j] /\ rstore'[j] # NoPayload) =>
                      jpc[j] = "returned" /\ rstore'[j] = jres[j]
                /\ (jpc[j] # "except" /\ jpc'[j] = "except") =>
                      /\ jpc[j] \in {"input", "invoke"}
                      /\ cache' = cache /\ rstore' = rstore
          /\ cache' # cache =>
                \E j \in Jobs : jpc[j] = "cache_put" /\ jpc'[j] = "returned"
         ]_vars

C11_Witness ==
    /\ \E j \in Jobs :
          /\ jpc[j] = "failure" /\ rstore[j] = NoPayload
          /\ cache[CacheKeyOf(j)] = NoPayload
    /\ \E j \in Jobs :
          /\ jpc[j] = "success" /\ rstore[j] # NoPayload
          /\ cache[CacheKeyOf(j)] # NoPayload

(***************************************************************************)
(* Batches                                                                 *)
(***************************************************************************)
\* C12: once the group is dispatched there is exactly one extract_document
\* task per document, each under an id of its own; once finalize_batch is
\* enqueued it has an id that is none of theirs; the response carries that id
\* and the children's ids, the i-th being the id of the task enqueued with the
\* i-th document; the response can always be given as soon as finalize_batch is
\* enqueued, whatever the children have done, and giving it changes no task.
C12_BatchEnqueuesOneTaskPerDocument ==
    /\ [](bpc \in {"start", "rejected"} => chIds = <<>> /\ fId = 0)
    /\ [](bpc \in {"dispatched", "enqueued", "responded"} =>
            /\ Len(chIds) = Len(bDocs)
            /\ DOMAIN chDoc = 1..Len(bDocs)
            /\ \A i, k \in 1..Len(chIds) : i # k => chIds[i] # chIds[k]
            /\ \A i \in 1..Len(chIds) : chIds[i] \in DOMAIN chDoc)
    /\ [](bpc \in {"enqueued", "responded"} =>
            fId # 0 /\ \A i \in 1..Len(chIds) : chIds[i] # fId)
    /\ [](bpc = "enqueued" => ENABLED BatchRespond)
    /\ [](bpc = "responded" =>
            /\ bResp.batch_task_id = fId
            /\ Len(bResp.document_task_ids) = Len(bDocs)
            /\ \A i \in 1..Len(bDocs) : chDoc[bResp.document_task_ids[i]] = bDocs[i])
    /\ [][(bpc # "responded" /\ bpc' = "responded") =>
             UNCHANGED <<chIds, chDoc, chState, fId, fpc, fRetries, fRuns>>]_vars

C12_Witness ==
    /\ bpc = "responded" /\ Len(bDocs) = MaxDocs
    /\ bDocs[1] # bDocs[MaxDocs]
    /\ \A i \in 1..Len(chState) : chState[i] = "PENDING"
    /\ fRuns = 0

C14_AggregatesWithin721Runs ==
    /\ [](fRetries <= FINALIZE_MAX_RETRIES /\ fRuns <= FINALIZE_MAX_RETRIES + 1)
    /\ [](fpc = "done" => fAgg.status = "completed")
    /\ [][(fRuns' # fRuns /\ fRetries = FINALIZE_MAX_RETRIES) =>
             fpc' = "aggregating"]_vars
    /\ (fpc = "scheduled") ~> (fpc = "done")

C14_Witness ==
    /\ fpc = "done" /\ fRuns = FINALIZE_MAX_RETRIES + 1
    /\ fAgg.status = "completed"
    /\ \E i \in 1..Len(chState) : chState[i] = "PENDING"

\* C15: the aggregation of a batch whose children are all terminal gives
\* total = n, successful = the number of succeeded children, failed = the
\* number of failed ones, results = the payloads of the succeeded children in
\* child order, and errors = one entry per failed child, in child order, with
\* the source of that child's document.
C15_AggregateCountsAndAttributes ==
    [][(fpc = "aggregating" /\ fpc' = "done"
          /\ \A i \in 1..Len(chState) : Ready(i)) =>
         LET n == Len(chIds)
             Succ == {i \in 1..n : chState[i] = "SUCCESS"}
             Fail == {i \in 1..n : chState[i] = "FAILURE"}
             Nth(S, k) == CHOOSE i \in S : Cardinality({m \in S : m <= i}) = k
         IN  /\ fAgg'.total = n
             /\ fAgg'.successful = Cardinality(Succ)
             /\ fAgg'.failed = Cardinality(Fail)
             /\ fAgg'.successful + fAgg'.failed = n
             /\ Len(fAgg'.results) = Cardinality(Succ)
             /\ \A k \in 1..Cardinality(Succ) :
                   fAgg'.results[k] = PayloadOf(chIds[Nth(Succ, k)])
             /\ Len(fAgg'.errors) = Cardinality(Fail)
             /\ \A k \in 1..Cardinality(Fail) :
                   fAgg'.errors[k].source = SourceOf(chDoc[chIds[Nth(Fail, k)]])
      ]_vars

C15_Witness ==
    /\ fpc = "done" /\ Len(bDocs) = 2
    /\ SourceOf(bDocs[1]) = "<raw_text>" /\ SourceOf(bDocs[2]) = "u1"
    /\ chState = <<"SUCCESS", "FAILURE">>
    /\ fAgg.total = 2 /\ fAgg.successful = 1 /\ fAgg.failed = 1
    /\ fAgg.errors = <<[source |-> "u1", error |-> "error"]>>

\* C16 as stated: a finalize_batch that has returned has its aggregate in the
\* result store under its id; until then the store holds nothing under it.
C16_AggregatePersisted ==
    /\ fpc = "done" => bStore = fAgg
    /\ fpc # "done" => bStore = NoAggregate

\* C16: by the time finalize_batch has returned, _store_result_in_redis has
\* been called exactly once and, if a callback_url was given, fire_webhook
\* exactly once (never, if none was given); the store then holds the aggregate
\* under the batch task id or, the write having failed, nothing; before the
\* aggregating run ends neither has been called and the store holds nothing:
\* only the step that aggregates persists or notifies.
C16_PersistAndNotifyOnceWhenAggregating ==
    /\ [](fpc = "done" =>
            /\ bStoreCalls = 1
            /\ bHookCalls = IF bCallback THEN 1 ELSE 0
            /\ bStore \in {fAgg, NoAggregate})
    /\ [](fpc # "done" =>
            bStoreCalls = 0 /\ bHookCalls = 0 /\ bStore = NoAggregate)
    /\ [][(bStoreCalls' # bStoreCalls \/ bHookCalls' # bHookCalls \/ bStore' # bStore) =>
             /\ fpc = "aggregating" /\ fpc' = "done"
             /\ (\A i \in 1..Len(chState) : Ready(i)) \/ fRetries = FINALIZE_MAX_RETRIES
         ]_vars

C16_Witness ==
    /\ fpc = "done" /\ bCallback
    /\ bStoreCalls = 1 /\ bHookCalls = 1
    /\ bStore = NoAggregate
    /\ fRetries > 0

\* C17: _select_consensus_output over N >= 1 candidates returns the candidate
\* with the highest count of candidates (itself included) whose word-set
\* Jaccard similarity to it is at least the threshold, the lowest index among
\* those with the highest count, with score count / N; so one candidate
\* scores 1, N candidates with the same words score 1, and candidates of
\* which no two agree give the first with score 1 / N.
C17_SelectsMostAgreedLowestIndex ==
    (sPc = "done" /\ CandidateOutputs(sResults) # <<>>) =>
        LET outputs == CandidateOutputs(sResults)
            n == Len(outputs)
            agree(i, j) ==
                LET both == WordSet(outputs[i]) \cap WordSet(outputs[j])
                    any == WordSet(outputs[i]) \cup WordSet(outputs[j])
                IN  any = {} \/ Cardinality(both) * cThr[2] >= cThr[1] * Cardinality(any)
            count(i) == Cardinality({j \in 1..n : j = i \/ agree(i, j)})
            top == {i \in 1..n : \A j \in 1..n : count(i) >= count(j)}
            winner == CHOOSE i \in top : \A j \in top : i <= j
        IN  /\ sOut.output = outputs[winner]
            /\ sOut.score[2] > 0
            /\ sOut.score[1] * n = count(winner) * sOut.score[2]
            /\ n = 1 => sOut.score[1] = sOut.score[2]
            /\ (\A i, j \in 1..n : WordSet(outputs[i]) = WordSet(outputs[j]))
                  => sOut.score[1] = sOut.score[2]
            /\ (\A i, j \in 1..n : i # j => ~agree(i, j))
                  => sOut.output = outputs[1] /\ sOut.score[1] * n = sOut.score[2]

\* Two of three candidates agree, the first and the third, whose texts differ.
C17_Witness ==
    /\ sPc = "done"
    /\ Len(CandidateOutputs(sResults)) = 3
    /\ sOut.score = <<2, 3>>
    /\ sOut.output = CandidateOutputs(sResults)[1]
    /\ CandidateOutputs(sResults)[3] # CandidateOutputs(sResults)[1]
    /\ WordSet(CandidateOutputs(sResults)[3]) = WordSet(CandidateOutputs(sResults)[1])

\* C18: in infer and in async_infer a provider that raises is left out of
\* the candidates and the others are still called and decide the winner; if
\* every provider raises the prompt gets the empty output with score 0.0; no
\* exception leaves either function.
C18_RaisingProviderIsExcluded ==
    LET answered == {i \in DOMAIN cOutcomes : ~cOutcomes[i].raises}
        nth(k) == CHOOSE i \in answered : Cardinality({j \in answered : j <= i}) = k
        results == [k \in 1..Cardinality(answered) |-> cOutcomes[nth(k)].scored_seq]
        expected == IF answered = {} THEN Scored(<<>>, <<0, 1>>)
                    ELSE SelectConsensusOutput(CandidateOutputs(results), cThr)
    IN  /\ sPc \in {"calling", "done"}
        /\ aPc \in {"gathering", "done"}
        /\ sPc = "done" => sNext > NumProviders /\ sOut = expected
        /\ aPc = "done" => aOut = expected

\* The first provider raised, the others answered and agree.
C18_Witness ==
    /\ sPc = "done" /\ aPc = "done"
    /\ cOutcomes[1].raises
    /\ \A i \in DOMAIN cOutcomes : i > 1 => ~cOutcomes[i].raises
    /\ sOut.score = <<2, 2>>
    /\ aOut.output # <<>>

\* C19: for the same provider outputs and failures, infer and async_infer
\* select the same output and score, in whatever order the concurrent calls
\* completed.
C19_SyncAndAsyncSelectTheSame ==
    (sPc = "done" /\ aPc = "done") => sOut = aOut

\* Three providers whose answers pairwise disagree completed last to first.
C19_Witness ==
    /\ sPc = "done" /\ aPc = "done"
    /\ aOrder = <<3, 2, 1>>
    /\ sOut.score = <<1, 3>>
    /\ aOut.output = cOutcomes[1].scored_seq[1]
    /\ aOut.output # cOutcomes[3].scored_seq[1]

\* C20: called with the same arguments, cache contents and model behaviour,
\* run_extraction and async_run_extraction make the same sequence of cache
\* lookups, progress reports, model invocations and cache writes, leave the
\* same cache, and return the same payload or raise the same error.
C20_SyncAndAsyncRunsAgree ==
    (syPc \in {"returned", "raised"} /\ asPc \in {"returned", "raised"}) =>
        /\ syPc = asPc
        /\ syTrace = asTrace
        /\ syTries = asTries
        /\ syRes = asRes
        /\ syErr = asErr
        /\ syCache = asCache

\* Both runs missed the cache, invoked the model three times (two malformed
\* outputs, then a good one), wrote the cache and returned.
C20_Witness ==
    /\ syPc = "returned" /\ asPc = "returned"
    /\ xTask /\ xEnabled /\ ~xPutFails
    /\ asTries = MAX_LLM_RETRIES + 1
    /\ Len(syTrace) = 9
    /\ asCache[KeyOfArgs[xArgs]] = asRes
    /\ ~syRes.cache_hit

\* C21: when Celery reports a task as PENDING, get_task_status looks the
\* task id up in the result store: with a stored result it reports SUCCESS
\* with that result, otherwise PENDING with the waiting message; a lookup
\* that fails counts as no stored result and no error is reported.
C21_PendingFallsBackToResultStore ==
    \A j \in Jobs : \A fails \in BOOLEAN :
        celState[j] = "PENDING" =>
            PollResponse(j, fails) =
                IF ~fails /\ rstore[j] # NoPayload
                THEN [state |-> "SUCCESS", result |-> rstore[j],
                      progress |-> "none", error |-> "none"]
                ELSE [state |-> "PENDING", result |-> NoPayload,
                      progress |-> WaitingMessage, error |-> "none"]

\* A task succeeded, Celery's meta expired, and a poll answered SUCCESS from
\* the result store.
C21_Witness ==
    \E j \in Jobs :
        /\ jpc[j] = "success"
        /\ celState[j] = "PENDING"
        /\ rstore[j] # NoPayload
        /\ lastPoll[j] = "SUCCESS"
        /\ PollResponse(j, FALSE).result = rstore[j]

\* C22: fire_webhook never raises: a callback URL refused by validation
\* (nothing is sent), a transport error and a response that is not 2xx are
\* only logged; the task that succeeded returns its result, which was stored
\* before the webhook, whatever became of the delivery.
C22_WebhookFailureNeverFailsTheJob ==
    /\ wPc # "except"
    /\ "blocked" \in wLog => wSent = NoRequest
    /\ wPc = "succeeded" =>
          /\ wReturned
          /\ wStored = ~wStoreFails
          /\ wCallback => wLog # {}

\* The POST failed with a transport error, and the task returned its result.
C22_Witness ==
    /\ wPc = "succeeded" /\ wReturned /\ wStored
    /\ wCallback /\ wUrlOk /\ wTransport = "error"
    /\ wLog = {"failed"}

\* C23 as stated: whatever extra_headers holds, the request carries the
\* Content-Type, X-Webhook-Signature and X-Webhook-Timestamp the notifier set.
C23_ExtraHeadersNeverOverride ==
    wSent # NoRequest =>
        /\ wSent.headers["Content-Type"] = ApplicationJson
        /\ \A k \in DOMAIN wHeaders : wSent.headers[k] = wHeaders[k]

\* C24 as stated: with a secret configured every request carries
\* X-Webhook-Timestamp = ts and X-Webhook-Signature = HMAC-SHA256(secret,
\* "{ts}." + body) over the body that is sent; the signature differs for
\* another secret or another body; without a secret the notifier adds
\* neither header.
C24_RequestsCarryTheSignature ==
    /\ (wSent # NoRequest /\ wSecret # <<>>) =>
          /\ wSent.headers["X-Webhook-Timestamp"] = ItoA(wTs)
          /\ wSent.headers["X-Webhook-Signature"] =
                HmacSha256Hex(wSecret, ItoA(wTs) \o Str(<<46>>) \o wSent.content)
          /\ \A secret \in SecretChoices \ {<<>>, wSecret} :
                ComputeWebhookSignature(wSent.content, secret, wTs)
                    # wSent.headers["X-Webhook-Signature"]
          /\ \A payload \in PayloadChoices \ {wPayload} :
                ComputeWebhookSignature(JsonDumps(payload), wSecret, wTs)
                    # wSent.headers["X-Webhook-Signature"]
    /\ (wPc \in {"post", "finish", "succeeded"} /\ wSecret = <<>>) => wHeaders = <<>>

\* C25 as stated: a task that has failed for good is reported by a poll as
\* FAILURE with its error, and a webhook was fired for it.
C25_FailureSurfacedByPollAndWebhook ==
    \A j \in Jobs :
        jpc[j] = "failure" =>
            /\ celState[j] = "FAILURE" =>
                  /\ PollResponse(j, FALSE).state = "FAILURE"
                  /\ PollResponse(j, FALSE).error = celErr[j]
                  /\ celErr[j] # "none"
            /\ hooks[j] >= 1

\* C26 as stated: a failure of the idempotency store during submit_extraction,
\* on the read or on the write, is swallowed: the call returns the id of the
\* one task it enqueued.
C26_IdempotencyStoreFailureSwallowed ==
    \A r \in Reqs :
        (reqPc[r] = "done" /\ reqKey[r] # 0) =>
            /\ reqResp[r] > 0
            /\ reqTask[r] # 0 => reqResp[r] = reqTask[r]

\* C27: a submission whose document_url or callback_url fails URL validation
\* is rejected before anything is done: no task is enqueued and no
\* idempotency record read or written; a batch with one invalid document URL
\* or batch callback URL is rejected whole, with no child task and no
\* finalize_batch enqueued.
C27_RejectedBeforeAnyWork ==
    /\ \A r \in Reqs :
          reqResp[r] = -2 => reqTask[r] = 0 /\ ~reqWrote[r] /\ reqKey[r] = 0
    /\ nextTask - 1 = Cardinality({r \in Reqs : reqTask[r] # 0})
    /\ bpc = "rejected" =>
          chIds = <<>> /\ chState = <<>> /\ fId = 0 /\ fpc = "none" /\ bResp = NoResponse

\* The submission was rejected, and so was a batch of two documents of
\* which the first carries raw text.
C27_Witness ==
    /\ reqPc[1] = "done" /\ reqResp[1] = -2
    /\ bpc = "rejected"
    /\ Len(bDocs) = 2
    /\ bDocs[1].document_url = ""

\* C28: DELETE /tasks/{id} only sends the revoke signal: for any task id, in
\* any state of the task, it answers "revoked" with the terminate flag it was
\* given, and the call changes neither the task's recorded state nor the
\* result store (nor the task itself).
C28_RevokeOnlySignals ==
    [][revSignal' # revSignal =>
          /\ \E id \in RevokeIds :
                /\ Len(revSignal'[id]) = Len(revSignal[id]) + 1
                /\ revResp' = [task_id |-> id, status |-> "revoked",
                               terminate |-> revSignal'[id][Len(revSignal'[id])].terminate]
          /\ UNCHANGED <<celState, celPct, celErr, celRes, rstore, jpc, jres>>]_vars

\* A task revoked with terminate=True after its model invocation returned
\* went on to succeed, and a poll answered SUCCESS from the result store after
\* Celery's meta expired.
C28_Witness ==
    /\ jpc[1] = "success"
    /\ revSignal[1] # <<>>
    /\ revSignal[1][1].terminate
    /\ revSignal[1][1].at = "invoked"
    /\ revSignal[UnknownId] # <<>>
    /\ rstore[1] # NoPayload
    /\ celState[1] = "PENDING"
    /\ lastPoll[1] = "SUCCESS"

\* C29: the model cache holds one instance per provider, credential and
\* schema configuration: calls with the same arguments all received the same
\* instance, and calls whose schema configuration differs (fence_output,
\* use_schema_constraints, the examples or the response_format) never
\* received the same instance.
C29_OneInstancePerTuple ==
    \A x, y \in pmGot :
        /\ x.args = y.args => x.model = y.model
        /\ (\/ x.args.fence_output # y.args.fence_output
            \/ x.args.use_schema_constraints # y.args.use_schema_constraints
            \/ x.args.examples # y.args.examples
            \/ x.args.response_format # y.args.response_format)
           => x.model # y.model

\* C30: for a batch with a callback URL, fire_webhook is also called at the
\* intermediate milestones: each time the number of completed documents that
\* finalize_batch reports, still short of the total, has crossed another
\* quarter of the total.
C30_IntermediateMilestoneWebhooks ==
    [][LET total == Len(bDocs)
           quarters(c) == (4 * (IF c < 0 THEN 0 ELSE c)) \div total
       IN  (/\ bCallback
            /\ fProgress' # fProgress
            /\ fProgress' < total
            /\ quarters(fProgress') > quarters(fProgress))
           => bHookCalls' > bHookCalls]_vars

\* C31: when the batch has a callback_url of its own, no child of the batch
\* ever calls fire_webhook: only the batch-level webhook is delivered.
C31_BatchCallbackOverridesChildren ==
    bCallback => \A i \in DOMAIN chHooks : chHooks[i] = 0

\* C32 as stated: a get made after an entry was stored under the key returns
\* the value last stored if the TTL of that put had not elapsed, and a miss
\* if it had.
C32_StoredEntryLivesForItsTtl ==
    \A i \in 1..Len(tGets) :
        LET g == tGets[i]
        IN  g.put # Miss => g.result = IF g.left > 0 THEN g.put ELSE Miss

\* C32, amended: the same for every get on which the backend did not fail; a
\* get on which it failed is a miss.
C32_StoredEntryLivesForItsTtlUnlessGetFails ==
    \A i \in 1..Len(tGets) :
        LET g == tGets[i]
        IN  /\ (g.put # Miss /\ ~g.failed) =>
                   g.result = IF g.left > 0 THEN g.put ELSE Miss
            /\ g.failed => g.result = Miss

\* A get one tick before the TTL of the put ran out returned the value, and a
\* get of the same key at the tick it ran out was a miss.
C32_Witness ==
    /\ Len(tGets) = 2
    /\ tGets[1].key = tGets[2].key
    /\ tGets[1].put # Miss /\ tGets[2].put = tGets[1].put
    /\ ~tGets[1].failed /\ ~tGets[2].failed
    /\ tGets[1].left = 1 /\ tGets[1].result = tGets[1].put
    /\ tGets[2].left = 0 /\ tGets[2].result = Miss

\* C33: two calls of build_cache_key on different field tuples never hash the
\* same pre-image, also when a field contains the separator and when a long
\* text is replaced by its digest.
C33_PreimageUnambiguous ==
    (kOp = "other" /\ kA # kB) => RawPreimage(kA) # RawPreimage(kB)

\* C34: in every aggregate successful + failed = total = the number of
\* children, successful and failed being the lengths of results and errors;
\* the aggregation lists in errors, in child order, every child that is not
\* successful at that moment, a child that is not ready (as when the polling
\* budget ran out) with "Unknown error" and the source of its document.
C34_EveryChildCounted ==
    /\ [](fpc = "done" =>
            /\ fAgg.total = Len(chIds)
            /\ fAgg.successful + fAgg.failed = fAgg.total
            /\ fAgg.successful = Len(fAgg.results)
            /\ fAgg.failed = Len(fAgg.errors))
    /\ [][(fpc = "aggregating" /\ fpc' = "done") =>
            LET NotSucc == {i \in 1..Len(chIds) : chState[i] # "SUCCESS"}
                Nth(k) == CHOOSE i \in NotSucc :
                              Cardinality({m \in NotSucc : m <= i}) = k
            IN  /\ fAgg'.failed = Cardinality(NotSucc)
                /\ \A k \in 1..Cardinality(NotSucc) :
                      fAgg'.errors[k] =
                          [source |-> SourceOf(chDoc[chIds[Nth(k)]]),
                           error |-> IF Ready(Nth(k)) THEN "error"
                                     ELSE "Unknown error"]]_vars

\* The budget ran out with the second of two children not ready: the
\* aggregate counts it as failed and lists it.
C34_Witness ==
    /\ fpc = "done" /\ fRetries = FINALIZE_MAX_RETRIES
    /\ Len(chIds) = 2
    /\ chState = <<"SUCCESS", "PENDING">>
    /\ fAgg.total = 2 /\ fAgg.successful = 1 /\ fAgg.failed = 1
    /\ fAgg.errors = <<[source |-> SourceOf(bDocs[2]), error |-> "Unknown error"]>>

\* C35: the result is persisted before the completion webhook is fired:
\* whenever fire_webhook has been called for the batch, _store_result_in_redis
\* has already been called for it (and the store holds the aggregate unless
\* that write failed).
C35_PersistedBeforeWebhook ==
    bHookCalls > 0 => bStoreCalls > 0

C37_ConcurrentMissesBothPut ==
    /\ [](\A j \in Jobs :
            /\ jpc[j] # "failure" /\ jerr[j] = "none" /\ retries[j] = 0
            /\ attempts[j] <= 1
            /\ (jpc[j] = "success" /\ ~celRes[j].cache_hit) =>
                    celRes[j] = ResultOf(jArgs[j], RaceElapsedMs(j)))
    /\ <>(\A j \in Jobs : jpc[j] = "success")
    /\ []((\A j \in Jobs : jpc[j] = "success") => cache[CacheKeyOf(1)] # NoPayload)
    /\ [](cache[CacheKeyOf(1)] \in
            {NoPayload} \cup {ResultOf(jArgs[j], RaceElapsedMs(j)) : j \in Jobs})
    /\ [][\A j \in Jobs :
            (jpc[j] = "cache_put" /\ jpc'[j] # "cache_put") =>
                cache'[CacheKeyOf(j)] = ResultOf(jArgs[j], RaceElapsedMs(j))]_vars

\* Both tasks missed, both invoked the model and both put: each returned its
\* own payload, not a cached one, and the cache holds the first task's, which
\* was put last.
C37_Witness ==
    /\ jpc[1] = "success" /\ jpc[2] = "success"
    /\ ~celRes[1].cache_hit /\ ~celRes[2].cache_hit
    /\ celRes[1] # celRes[2]
    /\ cache[CacheKeyOf(1)] = celRes[1]
    /\ CacheKeyOf(1) = CacheKeyOf(2)

\* C38: no step of a task, its final failure included, changes an
\* idempotency record (a record changes only by a write of submit_extraction
\* or by its TTL); and a call that reads, inside the TTL, the record of a task
\* that has failed for good, and gets an answer from Redis, returns that
\* task's id, enqueues no task and writes no record.
C38_FailedJobKeepsItsRecord ==
    /\ [][(\E j \in Jobs : jpc'[j] # jpc[j]) => idem' = idem /\ nextTask' = nextTask]_vars
    /\ [][\A r \in Reqs :
            (reqPc[r] = "idle" /\ reqPc'[r] # "idle" /\ reqJob'[r] = "failure") =>
                /\ reqPc'[r] = "done"
                /\ reqResp'[r] = idem[reqKey'[r]].id
                /\ jpc[reqResp'[r]] = "failure"
                /\ nextTask' = nextTask
                /\ idem' = idem]_vars
    /\ [](\A r \in Reqs :
            reqJob[r] = "failure" =>
                /\ reqPc[r] = "done"
                /\ reqTask[r] = 0
                /\ ~reqWrote[r]
                /\ reqResp[r] \in Jobs /\ jpc[reqResp[r]] = "failure")

\* A task failed on its fourth attempt while its record was alive, then a
\* call with the same key returned that task's id and enqueued nothing.
C38_Witness ==
    \E r \in Reqs :
        /\ reqPc[r] = "done" /\ reqKey[r] = ResubmitKey
        /\ reqJob[r] = "failure"
        /\ reqResp[r] = 1 /\ reqTask[r] = 0
        /\ jpc[1] = "failure" /\ attempts[1] = MaxRetries + 1
        /\ idem[ResubmitKey].id = 1
        /\ nextTask = 2

\* The stored percent changes only from nothing to 5, from 5 to 10 and from
\* 10 to 90, or back to nothing when the attempt starts or ends.
CheckpointsInOrder ==
    \A j \in Jobs :
        celPct'[j] # celPct[j] =>
            \/ <<celPct[j], celPct'[j]>> \in {<<0, 5>>, <<5, 10>>, <<10, 90>>}
            \/ celPct'[j] = 0 /\ celState'[j] # "PROGRESS"

\* C39 as stated: progress is reported at 5 %, 10 % and 90 % in that order,
\* and no progress response shows a lower percent than an earlier one of the
\* same task, retried attempts included.
C39_PercentNeverDecreases ==
    /\ [][CheckpointsInOrder]_vars
    /\ [](\A j \in Jobs : seenDrop[j] = "none")

\* C39: within an attempt progress is reported at 5 %, 10 % and 90 % in that
\* order, and no progress response shows a lower percent than an earlier one
\* of the same attempt; a retried attempt reports 5 % again, so a response
\* shows a lower percent only after a retry.
C39_PercentNeverDecreasesWithinAttempt ==
    /\ [][CheckpointsInOrder]_vars
    /\ [](\A j \in Jobs : seenDrop[j] # "attempt")
    /\ [][\A j \in Jobs :
            (seenDrop[j] = "none" /\ seenDrop'[j] = "retry") =>
                /\ seenAtt'[j] > seenAtt[j]
                /\ retries[j] > 0]_vars

\* A poller saw a higher percent in the first attempt and, the attempt having
\* failed, 5 % in the second.
C39_Witness ==
    \E j \in Jobs :
        /\ seenDrop[j] = "retry" /\ seenPct[j] = 5 /\ seenAtt[j] = 2
        /\ celState[j] = "PROGRESS" /\ celPct[j] = 5

\* The completion metric of a task that has ended is the single entry e.
EndedWith(j, e) == jpc[j] \in Terminal => metric[j] = <<e>>

\* C40 as stated: a task records a completion metric exactly once, a success
\* on the successful attempt or a failure on the final failed attempt, and a
\* failed attempt that is retried records nothing.
C40_MetricRecordedExactlyOnce ==
    /\ [](\A j \in Jobs :
            /\ jpc[j] \notin Terminal => metric[j] = <<>>
            /\ jpc[j] = "success" => EndedWith(j, "success")
            /\ jpc[j] = "failure" => EndedWith(j, "failure"))
    /\ [][\A j \in Jobs :
            (jpc[j] = "except" /\ jpc'[j] = "queued") => metric'[j] = metric[j]]_vars

\* C40: record_task_completed is called exactly once for a task, with
\* success on the successful attempt or with failure on the final failed
\* attempt (retries = max_retries), and not at all on a failed attempt that
\* is retried; the call counts the completion unless Redis rejects the write,
\* in which case a warning is logged and the task ends with no metric.
C40_MetricCallExactlyOnce ==
    /\ [](\A j \in Jobs :
            /\ jpc[j] \notin Terminal => metric[j] = <<>>
            /\ jpc[j] = "success" => EndedWith(j, "success") \/ EndedWith(j, "warning")
            /\ jpc[j] = "failure" => EndedWith(j, "failure") \/ EndedWith(j, "warning"))
    /\ [][\A j \in Jobs :
            /\ (jpc[j] = "except" /\ jpc'[j] = "queued") => metric'[j] = metric[j]
            /\ metric'[j] # metric[j] =>
                  \/ jpc[j] = "finish" /\ jpc'[j] = "success"
                  \/ jpc[j] = "except" /\ jpc'[j] = "failure"
                        /\ retries[j] = MaxRetries]_vars

\* One task failed for good after three retries and recorded one failure;
\* the other succeeded on a retried attempt and recorded one success.
C40_Witness ==
    \E j, k \in Jobs :
        /\ jpc[j] = "failure" /\ retries[j] = MaxRetries /\ metric[j] = <<"failure">>
        /\ jpc[k] = "success" /\ retries[k] > 0 /\ metric[k] = <<"success">>

====
